---- MODULE Spec2Model ----
(***************************************************************************)
(* git-prl: per-agent git worktrees.  The worktree lifecycle engine of     *)
(* src/src/worktree.ts (name resolution, creation with signal handlers,    *)
(* removal, listing), the start session of src/src/commands/start.ts, the  *)
(* prune loop and the apply state machine of src/src/commands/apply.ts,    *)
(* over an explicit model of the repository namespace they share.          *)
(*                                                                         *)
(* Strings are sequences of one-character strings, so that sanitising and  *)
(* the formatting of "<base>-<N>" are computed character by character.     *)
(***************************************************************************)
EXTENDS Integers, Sequences, FiniteSets, TLC

(***************************************************************************)
(* Bounds of the model.                                                    *)
(***************************************************************************)
\* how many start invocations may exist side by side
NumProcs == 2
\* how many commits the repository may hold
MaxCommits == 4
\* how many start sessions are begun in one behaviour of the sequential system
MaxStarts == 3
\* how long a raw name given on the command line may be
MaxLen == 3

Procs == 1..NumProcs

(***************************************************************************)
(* Characters and strings.                                                 *)
(***************************************************************************)
UpperCase ==
  <<"A","B","C","D","E","F","G","H","I","J","K","L","M",
    "N","O","P","Q","R","S","T","U","V","W","X","Y","Z">>
LowerCase ==
  <<"a","b","c","d","e","f","g","h","i","j","k","l","m",
    "n","o","p","q","r","s","t","u","v","w","x","y","z">>
DigitChars == <<"0","1","2","3","4","5","6","7","8","9">>
WhiteSpace == {" ", "\t"}

Range(s) == {s[i] : i \in 1..Len(s)}

\* String.prototype.toLowerCase, one character
toLowerCase(c) ==
  IF \E i \in 1..Len(UpperCase) : UpperCase[i] = c
  THEN LowerCase[CHOOSE i \in 1..Len(UpperCase) : UpperCase[i] = c]
  ELSE c

\* the character class [a-z0-9] of the two regular expressions
IsAlnum(c) == c \in Range(LowerCase) \cup Range(DigitChars)

\* String.prototype.trim
RECURSIVE TrimLeft(_)
TrimLeft(s) ==
  IF s # <<>> /\ Head(s) \in WhiteSpace THEN TrimLeft(Tail(s)) ELSE s
RECURSIVE TrimRight(_)
TrimRight(s) ==
  IF s # <<>> /\ s[Len(s)] \in WhiteSpace
  THEN TrimRight(SubSeq(s, 1, Len(s) - 1)) ELSE s
Trim(s) == TrimRight(TrimLeft(s))

LowerAll(s) == [i \in 1..Len(s) |-> toLowerCase(s[i])]

\* .replace(/[^a-z0-9]+/g, "-"): every maximal run of other characters
\* becomes one hyphen
RECURSIVE ReplaceRuns(_)
ReplaceRuns(s) ==
  IF s = <<>> THEN <<>>
  ELSE IF IsAlnum(Head(s)) THEN <<Head(s)>> \o ReplaceRuns(Tail(s))
  ELSE IF Len(s) > 1 /\ ~IsAlnum(s[2]) THEN ReplaceRuns(Tail(s))
  ELSE <<"-">> \o ReplaceRuns(Tail(s))

\* .replace(/^-+|-+$/g, "")
RECURSIVE StripLeft(_)
StripLeft(s) == IF s # <<>> /\ Head(s) = "-" THEN StripLeft(Tail(s)) ELSE s
RECURSIVE StripRight(_)
StripRight(s) ==
  IF s # <<>> /\ s[Len(s)] = "-"
  THEN StripRight(SubSeq(s, 1, Len(s) - 1)) ELSE s
StripHyphens(s) == StripRight(StripLeft(s))

\* .replace(/-+/g, "-")
RECURSIVE CollapseHyphens(_)
CollapseHyphens(s) ==
  IF s = <<>> THEN <<>>
  ELSE IF Head(s) = "-" /\ Len(s) > 1 /\ s[2] = "-" THEN CollapseHyphens(Tail(s))
  ELSE <<Head(s)>> \o CollapseHyphens(Tail(s))

\* mutant of sanitizeSegment: the hyphens at the ends are kept
sanitizeSegmentUnstripped(segment) ==
  CollapseHyphens(ReplaceRuns(LowerAll(Trim(segment))))

sanitizeSegment(segment) ==
  CollapseHyphens(StripHyphens(ReplaceRuns(LowerAll(Trim(segment)))))

\* the template literal's rendering of a number
RECURSIVE Decimal(_)
Decimal(n) ==
  IF n < 10 THEN <<DigitChars[n + 1]>>
  ELSE Decimal(n \div 10) \o <<DigitChars[(n % 10) + 1]>>

\* `${baseName}-${counter}`
Suffixed(baseName, counter) == baseName \o <<"-">> \o Decimal(counter)

AgentFallback == <<"a","g","e","n","t">>
PrlPrefix == <<"p","r","l","/">>
BASE_BRANCH == <<"m","a","i","n">>

buildWorktreeName(agent) ==
  IF sanitizeSegment(agent) = <<>> THEN AgentFallback ELSE sanitizeSegment(agent)

buildBranchName(worktreeName) == PrlPrefix \o worktreeName

\* currentBranch.startsWith("prl/")
StartsWithPrefix(b) ==
  Len(b) >= Len(PrlPrefix) /\ SubSeq(b, 1, Len(PrlPrefix)) = PrlPrefix

\* what the operator may type at a (y/N) prompt
Answers ==
  { <<>>, <<"n">>, <<"y">>, <<"y","e","p">>, <<" ","Y","e","s"," ">> }

\* mutant of confirm: an empty answer counts as yes
confirmDefaultYes(answer) ==
  LowerAll(Trim(answer)) \in { <<>>, <<"y">>, <<"y","e","s">> }

\* prompt.ts confirm, on a terminal: the answer trimmed and lower-cased is
\* "y" or "yes"
confirm(answer) ==
  LowerAll(Trim(answer)) \in { <<"y">>, <<"y","e","s">> }

(***************************************************************************)
(* State.                                                                  *)
(***************************************************************************)
VARIABLES
  container,   \* whether <root>/.prl-worktrees exists
  dirs,        \* entry name under the container |-> branch checked out in it
  branches,    \* branch name |-> head commit
  rootBranch,  \* branch checked out in the repository root's working copy
  parents,     \* commit |-> sequence of its parents
  remote,      \* upstream of the base branch: configured?, tracking ref, head
  st,          \* start invocation |-> its record
  pr,          \* the prune invocation
  ap,          \* the apply invocation
  events,      \* descriptors returned by createWorktree and removals asked
               \* for, in order
  env          \* where the repository is, where the last command was run
               \* and the root that command resolved

repo == <<container, dirs, branches, rootBranch, parents>>
others == <<remote, pr, ap>>
vars == <<container, dirs, branches, rootBranch, parents, remote, st, pr, ap, events,
         env>>

\* a directory under the container that is not a linked worktree
NoBranch == <<>>
\* options.worktreeName undefined
NoName == <<>>

\* existsSync(join(prlDir, name)); join(prlDir, "") is prlDir itself
DirExists(ds, cont, name) ==
  IF name = <<>> THEN cont ELSE cont /\ name \in DOMAIN ds

\* git branch --list <branchName> prints something
branchExists(bs, branchName) == branchName \in DOMAIN bs

\* the commit HEAD names in the root working copy
RootHead == branches[rootBranch]

(***************************************************************************)
(* Name resolution as functions of the namespace (the loops of             *)
(* findAvailableWorktreeName and findAvailableBranchName run to their      *)
(* end against one unchanging namespace).                                  *)
(***************************************************************************)
RECURSIVE WorktreeNameLoop(_, _, _, _, _, _)
WorktreeNameLoop(ds, cont, bs, baseName, candidate, counter) ==
  IF DirExists(ds, cont, candidate) \/ branchExists(bs, buildBranchName(candidate))
  THEN WorktreeNameLoop(ds, cont, bs, baseName, Suffixed(baseName, counter), counter + 1)
  ELSE candidate

findAvailableWorktreeName(ds, cont, bs, baseName) ==
  WorktreeNameLoop(ds, cont, bs, baseName, baseName, 1)

RECURSIVE BranchNameLoop(_, _, _)
BranchNameLoop(bs, agentSegment, counter) ==
  IF branchExists(bs, PrlPrefix \o Suffixed(agentSegment, counter))
  THEN BranchNameLoop(bs, agentSegment, counter + 1)
  ELSE PrlPrefix \o Suffixed(agentSegment, counter)

findAvailableBranchName(bs, agent) ==
  BranchNameLoop(bs, buildWorktreeName(agent), 1)

(***************************************************************************)
(* The external version-control operations, as functions of the namespace. *)
(***************************************************************************)
\* mutant of WorktreeAddArgsOk: `-B` in place of `-b`, which takes over an
\* existing branch
WorktreeAddArgsForced(ds, cont, bs, name, branchName) ==
  ~DirExists(ds, cont, name)

\* git worktree add -b <branchName> <path> HEAD: refuses an existing branch
\* and an existing path; otherwise creates both together
WorktreeAddArgsOk(ds, cont, bs, name, branchName) ==
  /\ ~branchExists(bs, branchName)
  /\ ~DirExists(ds, cont, name)

\* git worktree remove --force <path>: the path must be a linked worktree
WorktreeRemoveOk(ds, name) == name \in DOMAIN ds /\ ds[name] # NoBranch

RemoveKey(f, k) == [x \in DOMAIN f \ {k} |-> f[x]]

\* git branch -D <branch>: the branch must exist and be checked out nowhere
BranchDeleteOk(ds, bs, rb, branchName) ==
  /\ branchName \in DOMAIN bs
  /\ branchName # rb
  /\ \A d \in DOMAIN ds : ds[d] # branchName

\* the log after a removeWorktree call: one mark stands for all the calls
\* made between two creations
RemoveMark ==
  [op |-> "remove", worktreeName |-> <<>>, branchName |-> <<>>,
   base |-> <<>>, explicit |-> FALSE]
LogRemoval(log) ==
  IF log # <<>> /\ log[Len(log)].op = "remove" THEN log ELSE Append(log, RemoveMark)

\* git checkout <branch> in the root working copy: the branch must exist and
\* be checked out in no linked worktree
CheckoutOk(ds, bs, rb, branchName) ==
  /\ branchName \in DOMAIN bs
  /\ \/ branchName = rb
     \/ \A d \in DOMAIN ds : ds[d] # branchName

\* the commits reachable from c
RECURSIVE Ancestors(_, _)
Ancestors(ps, c) ==
  {c} \cup UNION { Ancestors(ps, ps[c][i]) : i \in 1..Len(ps[c]) }

NewCommit(ps) == Cardinality(DOMAIN ps) + 1

AddCommit(ps, ancestry) ==
  [c \in DOMAIN ps \cup {NewCommit(ps)} |->
     IF c = NewCommit(ps) THEN ancestry ELSE ps[c]]

\* mutant of MergeKind: --no-ff is not honoured
MergeKindFastForward(ps, ours, theirs, noFf) ==
  IF theirs \in Ancestors(ps, ours) THEN "upToDate"
  ELSE IF ours \in Ancestors(ps, theirs) THEN "fastForward"
  ELSE "mergeCommit"

\* mutant of MergeKind: --no-ff makes a commit even when there is nothing to
\* merge
MergeKindAlwaysCommit(ps, ours, theirs, noFf) ==
  IF noFf THEN "mergeCommit"
  ELSE IF theirs \in Ancestors(ps, ours) THEN "upToDate"
  ELSE IF ours \in Ancestors(ps, theirs) THEN "fastForward"
  ELSE "mergeCommit"

\* git merge [--no-ff] <theirs> into the checked-out head <ours>: nothing to
\* do when theirs is already reachable, a fast-forward when allowed and
\* possible, a merge commit otherwise
MergeKind(ps, ours, theirs, noFf) ==
  IF theirs \in Ancestors(ps, ours) THEN "upToDate"
  ELSE IF ~noFf /\ ours \in Ancestors(ps, theirs) THEN "fastForward"
  ELSE "mergeCommit"

MergedHead(ps, ours, theirs, noFf) ==
  CASE MergeKind(ps, ours, theirs, noFf) = "upToDate" -> ours
    [] MergeKind(ps, ours, theirs, noFf) = "fastForward" -> theirs
    [] OTHER -> NewCommit(ps)

MergedParents(ps, ours, theirs, noFf) ==
  IF MergeKind(ps, ours, theirs, noFf) = "mergeCommit"
  THEN AddCommit(ps, <<ours, theirs>>) ELSE ps

\* the repository root as a current directory
Root == <<>>

\* what `git rev-parse --abbrev-ref HEAD` prints for a detached head
DetachedHead == <<"H","E","A","D">>

\* mutant of HeadBranch: the head is read in a managed worktree, wherever the
\* command was run
HeadBranchOfWorktree(ds, rb, cwd) ==
  IF \E d \in DOMAIN ds : ds[d] # NoBranch
  THEN ds[CHOOSE d \in DOMAIN ds : ds[d] # NoBranch]
  ELSE rb

\* git rev-parse --abbrev-ref HEAD with cwd = process.cwd(): the branch of the
\* linked worktree the command is run in, else that of the root working copy
HeadBranch(ds, rb, cwd) ==
  IF cwd \in DOMAIN ds /\ ds[cwd] # NoBranch THEN ds[cwd] ELSE rb

\* no upstream configured for the base branch
NoRemote == [upstream |-> FALSE, tracking |-> 0, head |-> 0]

\* prune: its position, the listing still to go, the item at hand and the
\* answer given for it, the branch checked out in the item when its removal
\* was issued, and the outcome of the two removal commands
IdlePrune ==
  [pc |-> "idle", tty |-> FALSE, todo |-> {}, current |-> <<>>, answer |-> <<>>,
   head |-> NoBranch, removed |-> FALSE, deleted |-> FALSE]

NoDescriptor == [worktreeName |-> <<>>, branchName |-> <<>>]

IdleApply ==
  [pc |-> "idle", cwd |-> Root, autoCleanup |-> FALSE, tty |-> FALSE,
   currentBranch |-> <<>>, descriptor |-> NoDescriptor, remoteAhead |-> FALSE,
   ops |-> <<>>, answer |-> <<>>, exit |-> -1, error |-> "none"]

\* the repository at its usual place and no root resolved yet
NoInvocation ==
  [repoPath |-> <<"/","r">>, tree |-> "main", depth |-> 0, by |-> "none",
   root |-> <<>>]

\* no invocation is under way, and no child process of one
AllAtRest ==
  /\ \A p \in Procs : st[p].pc \in {"idle", "exited"} /\ st[p].git # "running"
  /\ pr.pc \in {"idle", "exited"}
  /\ ap.pc \in {"idle", "done", "failed"}

(***************************************************************************)
(* start: src/src/commands/start.ts and createWorktree.                    *)
(***************************************************************************)
IdleStart ==
  [pc |-> "idle", agent |-> <<>>, wtOpt |-> NoName, tty |-> FALSE,
   worktreeName |-> <<>>, branchName |-> <<>>, baseName |-> <<>>,
   counter |-> 0, worktreeCreated |-> FALSE, branchCreated |-> FALSE,
   handlers |-> FALSE, git |-> "none", shouldRemove |-> FALSE,
   agentFailed |-> FALSE, answer |-> <<>>,
   exit |-> -1, error |-> "none", runs |-> 0]

\* the raw command-line arguments a session may be started with
AgentArgs == { <<"w">>, <<" ","W","_">> }
WorktreeArgs == { NoName, <<"s">>, <<"W","-","1">>, <<"_">> }

\* mutant of Fail: the error is printed and the process ends with status 0
FailQuiet(rec, kind) == [rec EXCEPT !.pc = "exited", !.exit = 0, !.error = kind]

\* index.ts lines 81-84: an error that reaches the top is printed and the
\* process exits with status 1
Fail(rec, kind) == [rec EXCEPT !.pc = "exited", !.exit = 1, !.error = kind]

\* index.ts: program.action -> startAgent(agentName, {worktreeName})
startAgent(p, agent, wt, tty) ==
  /\ st[p].pc \in {"idle", "exited"}
  /\ st[p].git # "running"
  /\ st' = [st EXCEPT ![p] = [IdleStart EXCEPT !.pc = "validateAgentCommand",
                                !.agent = agent, !.wtOpt = wt, !.tty = tty,
                                !.runs = st[p].runs + 1]]
  /\ UNCHANGED <<repo, events, others, env>>

\* mutant of validateAgentCommand: the container is made before the agent
\* command is looked up
validateAgentCommandLate(p, found) ==
  /\ st[p].pc = "validateAgentCommand"
  /\ container' = TRUE
  /\ st' = [st EXCEPT ![p] =
              IF found THEN [@ EXCEPT !.pc = "ensurePrlDirectory"]
              ELSE Fail(@, "AgentNotFound")]
  /\ UNCHANGED <<dirs, branches, rootBranch, parents, events, others, env>>

\* start.ts validateAgentCommand: `command -v` fails -> throw, exit 1
validateAgentCommand(p, found) ==
  /\ st[p].pc = "validateAgentCommand"
  /\ st' = [st EXCEPT ![p] =
              IF found THEN [@ EXCEPT !.pc = "ensurePrlDirectory"]
              ELSE Fail(@, "AgentNotFound")]
  /\ UNCHANGED <<repo, events, others, env>>

\* mutant of ensurePrlDirectory: the default search counts from 2
ensurePrlDirectoryFromTwo(p) ==
  /\ st[p].pc = "ensurePrlDirectory"
  /\ container' = TRUE
  /\ st' = [st EXCEPT ![p] =
              IF st[p].wtOpt # NoName
              THEN [@ EXCEPT !.pc = "explicitCheck",
                             !.worktreeName = sanitizeSegment(st[p].wtOpt)]
              ELSE [@ EXCEPT !.pc = "findWorktreeDir",
                             !.baseName = buildWorktreeName(st[p].agent),
                             !.worktreeName = buildWorktreeName(st[p].agent),
                             !.counter = 2]]
  /\ UNCHANGED <<dirs, branches, rootBranch, parents, events, others, env>>

\* createWorktree lines 114-123 and 136: the container is ensured, then the
\* path is chosen by options.worktreeName being truthy
ensurePrlDirectory(p) ==
  /\ st[p].pc = "ensurePrlDirectory"
  /\ container' = TRUE
  /\ st' = [st EXCEPT ![p] =
              IF st[p].wtOpt # NoName
              THEN [@ EXCEPT !.pc = "explicitCheck",
                             !.worktreeName = sanitizeSegment(st[p].wtOpt)]
              ELSE [@ EXCEPT !.pc = "findWorktreeDir",
                             !.baseName = buildWorktreeName(st[p].agent),
                             !.worktreeName = buildWorktreeName(st[p].agent),
                             !.counter = 1]]
  /\ UNCHANGED <<dirs, branches, rootBranch, parents, events, others, env>>

\* mutant of explicitCheck: the existence check is left out
explicitCheckSkipped(p) ==
  /\ st[p].pc = "explicitCheck"
  /\ st' = [st EXCEPT ![p] =
              [@ EXCEPT !.pc = "findBranch", !.counter = 1,
                        !.baseName = buildWorktreeName(st[p].agent),
                        !.branchName =
                          PrlPrefix \o Suffixed(buildWorktreeName(st[p].agent), 1)]]
  /\ UNCHANGED <<repo, events, others, env>>

\* createWorktree lines 126-133: explicit name; an existing directory throws
explicitCheck(p) ==
  /\ st[p].pc = "explicitCheck"
  /\ st' = [st EXCEPT ![p] =
              IF DirExists(dirs, container, st[p].worktreeName)
              THEN Fail(@, "ValidationError")
              ELSE [@ EXCEPT !.pc = "findBranch", !.counter = 1,
                             !.baseName = buildWorktreeName(st[p].agent),
                             !.branchName =
                               PrlPrefix \o Suffixed(buildWorktreeName(st[p].agent), 1)]]
  /\ UNCHANGED <<repo, events, others, env>>

\* mutant of findBranchStep: a directory named like the candidate's suffix
\* rejects the candidate too, as in the default path
findBranchStepWithDirs(p) ==
  /\ st[p].pc = "findBranch"
  /\ st' = [st EXCEPT ![p] =
              IF \/ branchExists(branches, st[p].branchName)
                 \/ DirExists(dirs, container, Suffixed(st[p].baseName, st[p].counter))
              THEN [@ EXCEPT !.counter = @ + 1,
                             !.branchName =
                               PrlPrefix \o Suffixed(st[p].baseName, st[p].counter + 1)]
              ELSE [@ EXCEPT !.pc = "spawn"]]
  /\ UNCHANGED <<repo, events, others, env>>

\* mutant of findBranchStep: a rejected branch name is tried again
findBranchStepRetrying(p) ==
  /\ st[p].pc = "findBranch"
  /\ st' = [st EXCEPT ![p] =
              IF branchExists(branches, st[p].branchName)
              THEN @
              ELSE [@ EXCEPT !.pc = "spawn"]]
  /\ UNCHANGED <<repo, events, others, env>>

\* findAvailableBranchName, one evaluation of the loop condition (one await)
findBranchStep(p) ==
  /\ st[p].pc = "findBranch"
  /\ st' = [st EXCEPT ![p] =
              IF branchExists(branches, st[p].branchName)
              THEN [@ EXCEPT !.counter = @ + 1,
                             !.branchName =
                               PrlPrefix \o Suffixed(st[p].baseName, st[p].counter + 1)]
              ELSE [@ EXCEPT !.pc = "spawn"]]
  /\ UNCHANGED <<repo, events, others, env>>

\* findAvailableWorktreeName, the existsSync half of the loop condition
findWorktreeDirStep(p) ==
  /\ st[p].pc = "findWorktreeDir"
  /\ st' = [st EXCEPT ![p] =
              IF DirExists(dirs, container, st[p].worktreeName)
              THEN [@ EXCEPT !.worktreeName = Suffixed(st[p].baseName, st[p].counter),
                             !.counter = @ + 1]
              ELSE [@ EXCEPT !.pc = "findWorktreeBranch"]]
  /\ UNCHANGED <<repo, events, others, env>>

\* mutant of findWorktreeBranchStep: the branch is not looked up
findWorktreeBranchStepSkipped(p) ==
  /\ st[p].pc = "findWorktreeBranch"
  /\ st' = [st EXCEPT ![p] =
              [@ EXCEPT !.pc = "spawn",
                        !.branchName = buildBranchName(st[p].worktreeName)]]
  /\ UNCHANGED <<repo, events, others, env>>

\* mutant of findWorktreeBranchStep: a candidate another invocation has
\* resolved and not yet given up is taken as reserved
findWorktreeBranchStepReserving(p) ==
  /\ st[p].pc = "findWorktreeBranch"
  /\ st' = [st EXCEPT ![p] =
              IF \/ branchExists(branches, buildBranchName(st[p].worktreeName))
                 \/ \E q \in Procs \ {p} :
                      /\ st[q].pc \in {"spawn", "creating"}
                      /\ st[q].worktreeName = st[p].worktreeName
              THEN [@ EXCEPT !.pc = "findWorktreeDir",
                             !.worktreeName = Suffixed(st[p].baseName, st[p].counter),
                             !.counter = @ + 1]
              ELSE [@ EXCEPT !.pc = "spawn",
                             !.branchName = buildBranchName(st[p].worktreeName)]]
  /\ UNCHANGED <<repo, events, others, env>>

\* findAvailableWorktreeName, the awaited branchExists half; on exit the
\* branch name is derived (line 138)
findWorktreeBranchStep(p) ==
  /\ st[p].pc = "findWorktreeBranch"
  /\ st' = [st EXCEPT ![p] =
              IF branchExists(branches, buildBranchName(st[p].worktreeName))
              THEN [@ EXCEPT !.pc = "findWorktreeDir",
                             !.worktreeName = Suffixed(st[p].baseName, st[p].counter),
                             !.counter = @ + 1]
              ELSE [@ EXCEPT !.pc = "spawn",
                             !.branchName = buildBranchName(st[p].worktreeName)]]
  /\ UNCHANGED <<repo, events, others, env>>

\* createWorktree lines 150-197: flags cleared, handlers installed, the
\* external creation call issued
installHandlers(p) ==
  /\ st[p].pc = "spawn"
  /\ st' = [st EXCEPT ![p] = [@ EXCEPT !.pc = "creating", !.handlers = TRUE,
                                       !.worktreeCreated = FALSE,
                                       !.branchCreated = FALSE,
                                       !.git = "running"]]
  /\ UNCHANGED <<repo, events, others, env>>

\* the git child process of line 190 does its work (it may outlive the
\* invocation that spawned it)
gitWorktreeAdd(p, envOk) ==
  /\ st[p].git = "running"
  /\ IF envOk /\ WorktreeAddArgsOk(dirs, container, branches,
                                   st[p].worktreeName, st[p].branchName)
     THEN /\ dirs' = [d \in DOMAIN dirs \cup {st[p].worktreeName} |->
                        IF d = st[p].worktreeName THEN st[p].branchName ELSE dirs[d]]
          /\ branches' = [b \in DOMAIN branches \cup {st[p].branchName} |->
                            IF b = st[p].branchName THEN RootHead ELSE branches[b]]
          /\ st' = [st EXCEPT ![p].git = "ok"]
     ELSE /\ st' = [st EXCEPT ![p].git = "failed"]
          /\ UNCHANGED <<dirs, branches>>
  /\ UNCHANGED <<container, rootBranch, parents, events, others, env>>

\* mutant of cleanupRemovesDir: the directory is removed whenever it exists,
\* whatever worktreeCreated says
cleanupRemovesDirUnflagged(rec, ds, cont, rmOk) ==
  /\ DirExists(ds, cont, rec.worktreeName)
  /\ rmOk
  /\ WorktreeRemoveOk(ds, rec.worktreeName)

\* the cleanup closure of lines 153-172: both steps sit in one try block,
\* so a failed worktree removal skips the branch deletion
cleanupRemovesDir(rec, ds, cont, rmOk) ==
  /\ rec.worktreeCreated
  /\ DirExists(ds, cont, rec.worktreeName)
  /\ rmOk
  /\ WorktreeRemoveOk(ds, rec.worktreeName)

cleanupDirs(rec, ds, cont, rmOk) ==
  IF cleanupRemovesDir(rec, ds, cont, rmOk) THEN RemoveKey(ds, rec.worktreeName) ELSE ds

cleanupBranches(rec, ds, cont, bs, rb, rmOk, brOk) ==
  IF /\ ~(rec.worktreeCreated /\ DirExists(ds, cont, rec.worktreeName)
            /\ ~cleanupRemovesDir(rec, ds, cont, rmOk))
     /\ rec.branchCreated
     /\ branchExists(bs, rec.branchName)
     /\ brOk
     /\ BranchDeleteOk(cleanupDirs(rec, ds, cont, rmOk), bs, rb, rec.branchName)
  THEN RemoveKey(bs, rec.branchName)
  ELSE bs

\* signalHandler, lines 174-184, while the handlers are installed: cleanup,
\* then process.exit(1).  The child may die of the same signal or live on.
signalHandler(p, childDies, rmOk, brOk) ==
  /\ st[p].handlers
  /\ dirs' = cleanupDirs(st[p], dirs, container, rmOk)
  /\ branches' = cleanupBranches(st[p], dirs, container, branches, rootBranch, rmOk, brOk)
  /\ st' = [st EXCEPT ![p] =
              [Fail(@, "InterruptedCreation") EXCEPT
                 !.handlers = FALSE,
                 !.git = IF st[p].git = "running" /\ childDies THEN "failed" ELSE @]]
  /\ UNCHANGED <<container, rootBranch, parents, events, others, env>>

\* mutant of createReturn: the handlers stay installed
createReturnKeepsHandlers(p) ==
  /\ st[p].pc = "creating"
  /\ st[p].git = "ok"
  /\ st' = [st EXCEPT ![p] = [@ EXCEPT !.pc = "npmInstall",
                                       !.worktreeCreated = TRUE,
                                       !.branchCreated = TRUE]]
  /\ UNCHANGED <<repo, events, others, env>>

\* lines 198-199 and 204-208: the call returned; flags set, handlers removed
createReturn(p) ==
  /\ st[p].pc = "creating"
  /\ st[p].git = "ok"
  /\ st' = [st EXCEPT ![p] = [@ EXCEPT !.pc = "npmInstall", !.handlers = FALSE,
                                       !.worktreeCreated = TRUE,
                                       !.branchCreated = TRUE]]
  /\ UNCHANGED <<repo, events, others, env>>

\* mutant of createCatch: the failure is not re-raised
createCatchSwallowed(p, rmOk, brOk) ==
  /\ st[p].pc = "creating"
  /\ st[p].git = "failed"
  /\ dirs' = cleanupDirs(st[p], dirs, container, rmOk)
  /\ branches' = cleanupBranches(st[p], dirs, container, branches, rootBranch, rmOk, brOk)
  /\ st' = [st EXCEPT ![p] = [@ EXCEPT !.pc = "npmInstall", !.handlers = FALSE]]
  /\ UNCHANGED <<container, rootBranch, parents, events, others, env>>

\* lines 200-208: the call failed; cleanup, handlers removed, rethrow
createCatch(p, rmOk, brOk) ==
  /\ st[p].pc = "creating"
  /\ st[p].git = "failed"
  /\ dirs' = cleanupDirs(st[p], dirs, container, rmOk)
  /\ branches' = cleanupBranches(st[p], dirs, container, branches, rootBranch, rmOk, brOk)
  /\ st' = [st EXCEPT ![p] = [Fail(@, "CreationFailure") EXCEPT !.handlers = FALSE]]
  /\ UNCHANGED <<container, rootBranch, parents, events, others, env>>

\* lines 210-228: npm install, failure only warned about; descriptor returned
npmInstall(p) ==
  /\ st[p].pc = "npmInstall"
  /\ st' = [st EXCEPT ![p].pc = "runAgentCommand"]
  /\ events' = Append(events, [op |-> "created",
                               worktreeName |-> st[p].worktreeName,
                               branchName |-> st[p].branchName,
                               base |-> buildWorktreeName(st[p].agent),
                               explicit |-> st[p].wtOpt # NoName])
  /\ UNCHANGED <<repo, others, env>>

\* mutant of runAgentCommand: a failing agent ends the session
runAgentCommandRaising(p, agentOk) ==
  /\ st[p].pc = "runAgentCommand"
  /\ st' = [st EXCEPT ![p] =
              IF agentOk THEN [@ EXCEPT !.pc = "openWorktreeShell"]
              ELSE [Fail(@, "AgentFailure") EXCEPT !.agentFailed = TRUE]]
  /\ UNCHANGED <<repo, events, others, env>>

\* start.ts runAgentCommand: a failing agent is only reported; the session
\* holds the outcome until it ends
runAgentCommand(p, agentOk) ==
  /\ st[p].pc = "runAgentCommand"
  /\ st' = [st EXCEPT ![p] = [@ EXCEPT !.pc = "openWorktreeShell",
                                       !.agentFailed = ~agentOk]]
  /\ UNCHANGED <<repo, events, others, env>>

\* start.ts openWorktreeShell: skipped without a terminal, never throws
openWorktreeShell(p) ==
  /\ st[p].pc = "openWorktreeShell"
  /\ st' = [st EXCEPT ![p].pc = "askToPrune"]
  /\ UNCHANGED <<repo, events, others, env>>

\* start.ts askToPrune: no terminal -> keep; else confirm() decides
askToPrune(p, answer) ==
  /\ st[p].pc = "askToPrune"
  /\ st' = [st EXCEPT ![p] =
              IF st[p].tty /\ confirm(answer)
              THEN [@ EXCEPT !.pc = "removeWorktree", !.shouldRemove = TRUE,
                             !.answer = answer]
              ELSE [@ EXCEPT !.pc = "exited", !.exit = 0, !.agentFailed = FALSE]]
  /\ UNCHANGED <<repo, events, others, env>>

\* removeWorktree lines 234-245: forced worktree removal, failure ignored
startRemoveWorktree(p, ok) ==
  /\ st[p].pc = "removeWorktree"
  /\ dirs' = IF ok /\ WorktreeRemoveOk(dirs, st[p].worktreeName)
             THEN RemoveKey(dirs, st[p].worktreeName) ELSE dirs
  /\ st' = [st EXCEPT ![p].pc = "removeBranch"]
  /\ events' = LogRemoval(events)
  /\ UNCHANGED <<container, branches, rootBranch, parents, others, env>>

\* removeWorktree lines 247-254: forced branch deletion, failure ignored
startRemoveBranch(p, ok) ==
  /\ st[p].pc = "removeBranch"
  /\ branches' = IF ok /\ BranchDeleteOk(dirs, branches, rootBranch, st[p].branchName)
                 THEN RemoveKey(branches, st[p].branchName) ELSE branches
  /\ st' = [st EXCEPT ![p] = [@ EXCEPT !.pc = "exited", !.exit = 0,
                                       !.agentFailed = FALSE, !.answer = <<>>]]
  /\ UNCHANGED <<container, dirs, rootBranch, parents, events, others, env>>

\* every step of one start invocation, its arguments drawn from the given sets
StartStepWith(p, agents, names, ttys, maxRuns, alone) ==
  \/ /\ st[p].runs < maxRuns
     /\ alone => AllAtRest
     /\ \E a \in agents, w \in names, t \in ttys : startAgent(p, a, w, t)
  \/ \E found \in BOOLEAN : validateAgentCommand(p, found)
  \/ ensurePrlDirectory(p)
  \/ explicitCheck(p)
  \/ findBranchStep(p)
  \/ findWorktreeDirStep(p)
  \/ findWorktreeBranchStep(p)
  \/ installHandlers(p)
  \/ \E envOk \in BOOLEAN : gitWorktreeAdd(p, envOk)
  \/ \E childDies, rmOk, brOk \in BOOLEAN : signalHandler(p, childDies, rmOk, brOk)
  \/ createReturn(p)
  \/ \E rmOk, brOk \in BOOLEAN : createCatch(p, rmOk, brOk)
  \/ npmInstall(p)
  \/ \E agentOk \in BOOLEAN : runAgentCommand(p, agentOk)
  \/ openWorktreeShell(p)
  \/ \E answer \in Answers : askToPrune(p, answer)
  \/ \E ok \in BOOLEAN : startRemoveWorktree(p, ok)
  \/ \E ok \in BOOLEAN : startRemoveBranch(p, ok)

StartStep(p) == StartStepWith(p, AgentArgs, WorktreeArgs, BOOLEAN, 1, FALSE)

(***************************************************************************)
(* SpecCreate: one start invocation against an arbitrary namespace.        *)
(***************************************************************************)
\* names that may already be taken when the invocation begins
SeedNames == { <<"w">>, <<"w","-","1">>, <<"w","-","2">>, <<"s">> }

InitCreate ==
  /\ \E D \in SUBSET SeedNames, B \in SUBSET SeedNames :
       /\ dirs = [d \in D |-> IF d \in B THEN buildBranchName(d) ELSE NoBranch]
       /\ branches = [b \in {buildBranchName(n) : n \in B} \cup {BASE_BRANCH} |-> 1]
       /\ container \in (IF D = {} THEN BOOLEAN ELSE {TRUE})
  /\ rootBranch = BASE_BRANCH
  /\ parents = [c \in {1} |-> <<>>]
  /\ st = [p \in Procs |-> IdleStart]
  /\ remote = NoRemote
  /\ pr = IdlePrune
  /\ ap = IdleApply
  /\ events = <<>>
  /\ env = NoInvocation

NextCreate == StartStep(1)

SpecCreate == InitCreate /\ [][NextCreate]_vars

(***************************************************************************)
(* Claims checked under SpecCreate.                                        *)
(***************************************************************************)
\* the pair of resources invocation 1 resolved
OwnDirExists == DirExists(dirs, container, st[1].worktreeName)
OwnBranchExists == branchExists(branches, st[1].branchName)

\* C1: once an invocation interrupted during the external creation call has
\* terminated, its worktree directory and its branch exist both or neither.
C1_InterruptedBothOrNeither ==
  st[1].error = "InterruptedCreation" => (OwnDirExists <=> OwnBranchExists)

\* C1 witness: an interrupted invocation whose creation call had committed
C1_Witness ==
  /\ st[1].error = "InterruptedCreation"
  /\ st[1].git = "ok"
  /\ OwnDirExists /\ OwnBranchExists

\* C2 (as claimed): a signal handled while the call is pending, with the
\* directory or the branch already there and no removal failing, leaves
\* neither of them behind.
C2_HandlerRemovesWhatExists ==
  [][ ( /\ \E childDies \in BOOLEAN : signalHandler(1, childDies, TRUE, TRUE)
        /\ (OwnDirExists \/ OwnBranchExists) )
      => ( /\ st[1].worktreeName \notin DOMAIN dirs'
           /\ st[1].branchName \notin DOMAIN branches' ) ]_vars

\* whether neither the directory nor the branch of a candidate exists
Free(name) ==
  /\ ~DirExists(dirs, container, name)
  /\ ~branchExists(branches, buildBranchName(name))

\* no search can reject more candidates than there are entries and branches
SearchSpan == 1..(Cardinality(DOMAIN dirs) + Cardinality(DOMAIN branches) + 1)

\* C6: default resolution returns the base when it is free, and otherwise
\* base-N for the smallest N >= 1 with neither directory nor branch taken
\* (either one alone rejects a candidate); the branch is prl/ + the name.
C6_DefaultResolution ==
  (st[1].pc = "spawn" /\ st[1].wtOpt = NoName) =>
    LET base == buildWorktreeName(st[1].agent)
        name == st[1].worktreeName
    IN /\ st[1].branchName = PrlPrefix \o name
       /\ IF Free(base) THEN name = base
          ELSE \E N \in SearchSpan :
                 /\ name = Suffixed(base, N)
                 /\ Free(name)
                 /\ \A M \in 1..(N - 1) : ~Free(Suffixed(base, M))

\* C6 witness: the base and base-1 were taken, one of them by a directory
\* alone, and base-2 was returned
C6_Witness ==
  /\ st[1].pc = "spawn" /\ st[1].wtOpt = NoName
  /\ st[1].worktreeName = <<"w","-","2">>
  /\ <<"w","-","1">> \in DOMAIN dirs
  /\ ~branchExists(branches, PrlPrefix \o <<"w","-","1">>)

\* invocation 1 has not passed the check yet and its explicit name names an
\* entry of the container
Collides ==
  /\ st[1].pc \in {"validateAgentCommand", "ensurePrlDirectory", "explicitCheck"}
  /\ st[1].wtOpt # NoName
  /\ sanitizeSegment(st[1].wtOpt) # <<>>
  /\ DirExists(dirs, container, sanitizeSegment(st[1].wtOpt))

\* C9: an explicit name that names an existing directory fails with the
\* validation error at the check, no other name is tried and no step of the
\* invocation changes the repository.
C9_ExplicitCollision ==
  [][ Collides =>
        /\ repo' = repo
        /\ st'[1].pc \in {"ensurePrlDirectory", "explicitCheck", "exited"}
        /\ st'[1].counter = 0
        /\ st[1].pc = "explicitCheck" =>
             /\ st'[1].error = "ValidationError" /\ st'[1].exit = 1
             /\ st'[1].worktreeName = sanitizeSegment(st[1].wtOpt) ]_vars

\* C9 witness: the validation error raised for a name that is an entry
C9_Witness ==
  /\ st[1].error = "ValidationError"
  /\ st[1].worktreeName = <<"w","-","1">>
  /\ st[1].worktreeName \in DOMAIN dirs

\* C10: explicit-name create takes the branch prl/<agent>-N for the smallest
\* N >= 1 whose branch does not exist, whatever directories exist and
\* whatever the worktree is called.
C10_ExplicitBranch ==
  (st[1].pc = "spawn" /\ st[1].wtOpt # NoName) =>
    LET base == buildWorktreeName(st[1].agent) IN
    \E N \in SearchSpan :
      /\ st[1].branchName = PrlPrefix \o Suffixed(base, N)
      /\ ~branchExists(branches, st[1].branchName)
      /\ \A M \in 1..(N - 1) : branchExists(branches, PrlPrefix \o Suffixed(base, M))

\* C10 witness: worktree "s" for agent "w" with prl/w-1 taken gets prl/w-2,
\* while a directory w-2 exists
C10_Witness ==
  /\ st[1].pc = "spawn"
  /\ st[1].worktreeName = <<"s">>
  /\ st[1].branchName = PrlPrefix \o <<"w","-","2">>
  /\ <<"w","-","2">> \in DOMAIN dirs

(***************************************************************************)
(* The creation window.                                                    *)
(***************************************************************************)
\* C15: the handlers of an invocation are installed only between its issuing
\* the creation call and that call's return to it; no later step of the
\* invocation (dependency installation, agent, shell, prompt, removal) and no
\* earlier one runs with them installed.
C15_HandlersOnlyWhileCreating ==
  \A p \in Procs :
    /\ st[p].handlers => (st[p].pc = "creating" /\ st[p].git # "none")
    /\ st[p].pc = "creating" => st[p].handlers

\* C15 witness: the creation call has done its work and has not yet returned
\* to the invocation, whose handlers are installed
C15_Witness ==
  /\ st[1].handlers
  /\ st[1].pc = "creating"
  /\ st[1].git = "ok"
  /\ OwnDirExists

(***************************************************************************)
(* An agent command that cannot be found.                                  *)
(***************************************************************************)
\* C26: a start whose agent command is not found fails in its first step,
\* before any name is resolved and before anything is made: the step that
\* begins the invocation and the lookup change nothing in the repository,
\* the container included, name resolution is entered only from a
\* successful lookup, and the failed invocation has resolved no name, issued
\* no creation call and recorded nothing as created.
C26_AgentNotFound ==
  /\ [][\A p \in Procs :
          (st'[p].pc = "validateAgentCommand" \/ st[p].pc = "validateAgentCommand")
            => repo' = repo /\ events' = events]_vars
  /\ [][\A p \in Procs :
          (st'[p].pc = "ensurePrlDirectory" /\ st[p].pc # "ensurePrlDirectory")
            => st[p].pc = "validateAgentCommand"]_vars
  /\ [][\A p \in Procs :
          (st[p].pc = "validateAgentCommand" /\ st'[p].pc = "exited") =>
            /\ st'[p].error = "AgentNotFound"
            /\ st'[p].exit = 1]_vars
  /\ [](\A p \in Procs : st[p].error = "AgentNotFound" =>
          /\ st[p].pc = "exited"
          /\ st[p].worktreeName = <<>>
          /\ st[p].branchName = <<>>
          /\ st[p].git = "none"
          /\ ~st[p].worktreeCreated
          /\ ~st[p].branchCreated
          /\ events = <<>>)

\* C26 witness: the agent command was not found in a repository that has no
\* container, and there is none afterwards
C26_Witness ==
  /\ st[1].error = "AgentNotFound"
  /\ st[1].exit = 1
  /\ ~container
  /\ dirs = <<>>
  /\ DOMAIN branches = {BASE_BRANCH}

(***************************************************************************)
(* Explicit names without any letter or digit.                             *)
(***************************************************************************)
\* the explicit name given is non-empty and has no character of [a-zA-Z0-9]
NoAlnumName ==
  /\ st[1].wtOpt # NoName
  /\ \A i \in 1..Len(st[1].wtOpt) : ~IsAlnum(toLowerCase(st[1].wtOpt[i]))

\* C11 as stated: an explicit name without letters or digits is sanitized to
\* the fallback 'agent': the check of the explicit path is made for the name
\* 'agent', fails only when a directory 'agent' exists, and otherwise goes on
\* with 'agent' as the worktree name.
C11_ExplicitFallback ==
  [][(st[1].pc = "explicitCheck" /\ NoAlnumName) =>
       /\ st'[1].worktreeName = AgentFallback
       /\ (st'[1].error = "ValidationError")
            <=> DirExists(dirs, container, AgentFallback)]_vars

(***************************************************************************)
(* SpecRace: start invocations side by side on a fresh repository.         *)
(***************************************************************************)
InitFresh ==
  /\ container = FALSE
  /\ dirs = <<>>
  /\ branches = [b \in {BASE_BRANCH} |-> 1]
  /\ rootBranch = BASE_BRANCH
  /\ parents = [c \in {1} |-> <<>>]
  /\ st = [p \in Procs |-> IdleStart]
  /\ remote = NoRemote
  /\ pr = IdlePrune
  /\ ap = IdleApply
  /\ events = <<>>
  /\ env = NoInvocation

\* the arguments of the racing sessions: one agent, default and explicit
\* names, each session attached to a terminal
RaceAgentArgs == { <<"w">> }
RaceWorktreeArgs == { NoName, <<"s">>, <<"W","-","1">> }

NextRace ==
  \E p \in Procs : StartStepWith(p, RaceAgentArgs, RaceWorktreeArgs, {TRUE}, 1, FALSE)

SpecRace == InitFresh /\ [][NextRace]_vars

\* the external creation call of p succeeded and p has not asked for removal
Holds(p) == st[p].git = "ok" /\ ~st[p].shouldRemove

\* C8: no two invocations both hold a worktree of the same name or a branch
\* of the same name; an invocation whose creation call failed ends with
\* exit status 1 and no descriptor.
C8_NoDoubleCreation ==
  \A p, q \in Procs :
    /\ (p # q /\ Holds(p) /\ Holds(q)) =>
          /\ st[p].worktreeName # st[q].worktreeName
          /\ st[p].branchName # st[q].branchName
    /\ (st[p].git = "failed" /\ st[p].pc = "exited") =>
          /\ st[p].exit = 1
          /\ st[p].error \in {"CreationFailure", "InterruptedCreation"}
          /\ ~st[p].worktreeCreated

\* C8 witness: two invocations resolved the same candidate pair; one holds
\* it and the other has ended in a creation failure
C8_Witness ==
  \E p, q \in Procs :
    /\ p # q
    /\ st[p].worktreeName = st[q].worktreeName
    /\ st[p].branchName = st[q].branchName
    /\ Holds(p)
    /\ st[q].error = "CreationFailure"

\* the creation call of invocation p has failed and this step is p's, no
\* signal being handled in it
FailureCaught(p) ==
  /\ st[p].pc = "creating"
  /\ st[p].git = "failed"
  /\ st'[p] # st[p]
  /\ st'[p].error # "InterruptedCreation"

listWorktrees(ds, cont) == IF cont THEN DOMAIN ds ELSE {}

\* listWorktrees lines 268-278: the descriptor made of each listed entry
Descriptors(ds, cont) ==
  { [worktreeName |-> d, branchName |-> buildBranchName(d)] :
      d \in listWorktrees(ds, cont) }

\* pruneWorktrees lines 5-10: the listing; nothing to do when it is empty.
\* Prune is run once in a behaviour.
pruneWorktrees(tty) ==
  /\ AllAtRest
  /\ pr.pc = "idle"
  /\ pr' = IF listWorktrees(dirs, container) = {}
           THEN [IdlePrune EXCEPT !.pc = "exited"]
           ELSE [IdlePrune EXCEPT !.pc = "loop", !.tty = tty,
                                  !.todo = listWorktrees(dirs, container)]
  /\ UNCHANGED <<repo, remote, st, ap, events, env>>

\* mutant of pruneNext: the answer is read whether or not there is a terminal
pruneNextAsking(answer) ==
  /\ pr.pc = "loop"
  /\ pr.todo # {}
  /\ \E d \in pr.todo :
       pr' = IF confirm(answer)
             THEN [pr EXCEPT !.pc = "removeWorktree", !.current = d,
                             !.todo = @ \ {d}, !.answer = answer,
                             !.head = dirs[d], !.removed = FALSE,
                             !.deleted = FALSE]
             ELSE [pr EXCEPT !.todo = @ \ {d}, !.current = d,
                             !.answer = answer,
                             !.head = dirs[d], !.removed = FALSE,
                             !.deleted = FALSE]
  /\ UNCHANGED <<repo, remote, st, ap, events, env>>

\* pruneWorktrees lines 12-24: the next descriptor of the listing; without a
\* terminal the answer is no
pruneNext(answer) ==
  /\ pr.pc = "loop"
  /\ pr.todo # {}
  /\ \E d \in pr.todo :
       pr' = IF pr.tty /\ confirm(answer)
             THEN [pr EXCEPT !.pc = "removeWorktree", !.current = d,
                             !.todo = @ \ {d}, !.answer = answer,
                             !.head = dirs[d], !.removed = FALSE,
                             !.deleted = FALSE]
             ELSE [pr EXCEPT !.todo = @ \ {d}, !.current = d,
                             !.answer = IF pr.tty THEN answer ELSE <<>>,
                             !.head = dirs[d], !.removed = FALSE,
                             !.deleted = FALSE]
  /\ UNCHANGED <<repo, remote, st, ap, events, env>>

\* removeWorktree lines 234-245, called by prune
pruneRemoveWorktree(ok) ==
  /\ pr.pc = "removeWorktree"
  /\ dirs' = IF ok /\ WorktreeRemoveOk(dirs, pr.current)
             THEN RemoveKey(dirs, pr.current) ELSE dirs
  /\ pr' = [pr EXCEPT !.pc = "removeBranch",
                      !.removed = ok /\ WorktreeRemoveOk(dirs, pr.current)]
  /\ events' = LogRemoval(events)
  /\ UNCHANGED <<container, branches, rootBranch, parents, remote, st, ap, env>>

\* removeWorktree lines 247-254, called by prune
pruneRemoveBranch(ok) ==
  /\ pr.pc = "removeBranch"
  /\ branches' = IF ok /\ BranchDeleteOk(dirs, branches, rootBranch,
                                         buildBranchName(pr.current))
                 THEN RemoveKey(branches, buildBranchName(pr.current))
                 ELSE branches
  /\ pr' = [pr EXCEPT !.pc = "loop",
                      !.deleted = ok /\ BranchDeleteOk(dirs, branches, rootBranch,
                                                       buildBranchName(pr.current))]
  /\ UNCHANGED <<container, dirs, rootBranch, parents, remote, st, ap, events, env>>

\* the loop is over and the process ends
pruneReturn ==
  /\ pr.pc = "loop"
  /\ pr.todo = {}
  /\ pr' = [IdlePrune EXCEPT !.pc = "exited"]
  /\ UNCHANGED <<repo, remote, st, ap, events, env>>

\* the steps of prune, the operator typing one of answers at each prompt
PruneStepWith(answers) ==
  \/ \E tty \in BOOLEAN : pruneWorktrees(tty)
  \/ \E answer \in answers : pruneNext(answer)
  \/ \E ok \in BOOLEAN : pruneRemoveWorktree(ok)
  \/ \E ok \in BOOLEAN : pruneRemoveBranch(ok)
  \/ pruneReturn

PruneStep == PruneStepWith(Answers)

(***************************************************************************)
(* apply: applyAgent of src/src/commands/apply.ts.                         *)
(***************************************************************************)
ApplyFail(rec, kind) == [rec EXCEPT !.pc = "failed", !.exit = 1, !.error = kind]

Issued(rec, cmd, ok) == [rec EXCEPT !.ops = Append(@, [cmd |-> cmd, ok |-> ok])]

\* index.ts: apply action -> applyAgent(autoCleanup), run in directory cwd
applyAgent(cwd, autoCleanup, tty) ==
  /\ AllAtRest
  /\ Cardinality(DOMAIN parents) <= MaxCommits
  /\ ap' = [IdleApply EXCEPT !.pc = "validateContext", !.cwd = cwd,
                             !.autoCleanup = autoCleanup, !.tty = tty]
  /\ UNCHANGED <<repo, remote, st, pr, events, env>>

\* describeWorktreeByBranch: the listed directory whose derived branch name
\* is the given one
Candidates(ds, cont, branchName) ==
  { d \in listWorktrees(ds, cont) : buildBranchName(d) = branchName }

\* mutant of worktreeExists: the second listing is taken to hold the branch
worktreeExistsAlways(ds, cont, branchName) == TRUE

\* applyAgent lines 97-100: the listing is read again and searched for the
\* branch name
worktreeExists(ds, cont, branchName) ==
  \E wt \in Descriptors(ds, cont) : wt.branchName = branchName

\* mutant of applyValidateContext: no test of the branch name for a detached
\* head or a missing prefix
applyValidateContextAnyBranch(revParseOk) ==
  /\ ap.pc = "validateContext"
  /\ LET currentBranch == HeadBranch(dirs, rootBranch, ap.cwd) IN
       ap' = IF ~revParseOk THEN ApplyFail(ap, "ContextError")
             ELSE IF currentBranch = BASE_BRANCH
               THEN ApplyFail([ap EXCEPT !.currentBranch = currentBranch],
                              "ContextError")
             ELSE IF Candidates(dirs, container, currentBranch) = {}
               THEN ApplyFail([ap EXCEPT !.currentBranch = currentBranch],
                              IF ~worktreeExists(dirs, container, currentBranch)
                              THEN "OrphanedBranch" ELSE "LookupFailure")
             ELSE [ap EXCEPT !.pc = "checkRemote",
                             !.currentBranch = currentBranch,
                             !.descriptor =
                               [worktreeName |->
                                  CHOOSE d \in Candidates(dirs, container, currentBranch) : TRUE,
                                branchName |-> currentBranch]]
  /\ UNCHANGED <<repo, remote, st, pr, events, env>>

\* applyAgent lines 58-111: repository and branch context, then the
\* descriptor of the current branch
applyValidateContext(revParseOk) ==
  /\ ap.pc = "validateContext"
  /\ LET currentBranch == HeadBranch(dirs, rootBranch, ap.cwd) IN
       ap' = IF ~revParseOk THEN ApplyFail(ap, "ContextError")
             ELSE IF currentBranch = BASE_BRANCH
               THEN ApplyFail([ap EXCEPT !.currentBranch = currentBranch],
                              "ContextError")
             ELSE IF currentBranch = DetachedHead \/ ~StartsWithPrefix(currentBranch)
               THEN ApplyFail([ap EXCEPT !.currentBranch = currentBranch],
                              "ContextError")
             ELSE IF Candidates(dirs, container, currentBranch) = {}
               THEN ApplyFail([ap EXCEPT !.currentBranch = currentBranch],
                              IF ~worktreeExists(dirs, container, currentBranch)
                              THEN "OrphanedBranch" ELSE "LookupFailure")
             ELSE [ap EXCEPT !.pc = "checkRemote",
                             !.currentBranch = currentBranch,
                             !.descriptor =
                               [worktreeName |->
                                  CHOOSE d \in Candidates(dirs, container, currentBranch) : TRUE,
                                branchName |-> currentBranch]]
  /\ UNCHANGED <<repo, remote, st, pr, events, env>>

\* git rev-list --count base..upstream > 0
Behind(ps, bs, tracking) ==
  Ancestors(ps, tracking) \ Ancestors(ps, bs[BASE_BRANCH]) # {}

\* the commands of checkRemoteAhead: git fetch --quiet, then, if it
\* succeeded, git rev-list --count
Checked(rec, fetchOk, countOk) ==
  IF fetchOk THEN Issued(Issued(rec, "fetch", TRUE), "rev-list", countOk)
  ELSE Issued(rec, "fetch", FALSE)

\* mutant of checkRemoteAhead: the result is dropped without a terminal
checkRemoteAheadOnTty(fetchOk, countOk) ==
  /\ ap.pc = "checkRemote"
  /\ IF ~remote.upstream
     THEN /\ ap' = [ap EXCEPT !.pc = "mergeCheckout", !.remoteAhead = FALSE]
          /\ UNCHANGED remote
     ELSE /\ remote' = IF fetchOk THEN [remote EXCEPT !.tracking = remote.head]
                       ELSE remote
          /\ LET ahead == fetchOk /\ countOk /\ ap.tty
                          /\ Behind(parents, branches, remote.head) IN
               ap' = [Checked(ap, fetchOk, countOk) EXCEPT
                        !.remoteAhead = ahead,
                        !.pc = IF ahead /\ ap.tty THEN "confirmFetch"
                               ELSE "mergeCheckout"]
  /\ UNCHANGED <<repo, st, pr, events, env>>

\* mutant of checkRemoteAhead: a failed fetch or count ends apply
checkRemoteAheadRaising(fetchOk, countOk) ==
  /\ ap.pc = "checkRemote"
  /\ IF ~remote.upstream
     THEN /\ ap' = [ap EXCEPT !.pc = "mergeCheckout", !.remoteAhead = FALSE]
          /\ UNCHANGED remote
     ELSE /\ remote' = IF fetchOk THEN [remote EXCEPT !.tracking = remote.head]
                       ELSE remote
          /\ LET ahead == fetchOk /\ countOk
                          /\ Behind(parents, branches, remote.head) IN
               ap' = IF fetchOk /\ countOk
                     THEN [Checked(ap, fetchOk, countOk) EXCEPT
                             !.remoteAhead = ahead,
                             !.pc = IF ahead /\ ap.tty THEN "confirmFetch"
                                    ELSE "mergeCheckout"]
                     ELSE ApplyFail(Checked(ap, fetchOk, countOk), "MergeFailure")
  /\ UNCHANGED <<repo, st, pr, events, env>>

\* checkRemoteAhead (lines 12-53) and the test of line 117
checkRemoteAhead(fetchOk, countOk) ==
  /\ ap.pc = "checkRemote"
  /\ IF ~remote.upstream
     THEN /\ ap' = [ap EXCEPT !.pc = "mergeCheckout", !.remoteAhead = FALSE]
          /\ UNCHANGED remote
     ELSE /\ remote' = IF fetchOk THEN [remote EXCEPT !.tracking = remote.head]
                       ELSE remote
          /\ LET ahead == fetchOk /\ countOk
                          /\ Behind(parents, branches, remote.head) IN
               ap' = [Checked(ap, fetchOk, countOk) EXCEPT
                        !.remoteAhead = ahead,
                        !.pc = IF ahead /\ ap.tty THEN "confirmFetch"
                               ELSE "mergeCheckout"]
  /\ UNCHANGED <<repo, st, pr, events, env>>

\* lines 118-121: the advisory prompt
confirmFetch(answer) ==
  /\ ap.pc = "confirmFetch"
  /\ ap' = [ap EXCEPT !.pc = IF confirm(answer) THEN "syncFetch"
                             ELSE "mergeCheckout",
                      !.answer = answer]
  /\ UNCHANGED <<repo, remote, st, pr, events, env>>

\* lines 124-127: git fetch origin main
syncFetch(ok) ==
  /\ ap.pc = "syncFetch"
  /\ remote' = IF ok THEN [remote EXCEPT !.tracking = remote.head] ELSE remote
  /\ ap' = [Issued(ap, "fetch origin", ok) EXCEPT
              !.pc = IF ok THEN "syncCheckout" ELSE "syncRestore"]
  /\ UNCHANGED <<repo, st, pr, events, env>>

\* lines 129-132: git checkout main in the root
syncCheckout(ok) ==
  /\ ap.pc = "syncCheckout"
  /\ LET done == ok /\ CheckoutOk(dirs, branches, rootBranch, BASE_BRANCH) IN
       /\ rootBranch' = IF done THEN BASE_BRANCH ELSE rootBranch
       /\ ap' = [Issued(ap, "checkout base", done) EXCEPT
                   !.pc = IF done THEN "syncMerge" ELSE "syncRestore"]
  /\ UNCHANGED <<container, dirs, branches, parents, remote, st, pr, events, env>>

\* mutant of syncMerge: a failed update of base ends apply
syncMergeAborting(ok) ==
  /\ ap.pc = "syncMerge"
  /\ IF ok
     THEN /\ branches' = [branches EXCEPT ![rootBranch] =
                            MergedHead(parents, RootHead, remote.tracking, FALSE)]
          /\ parents' = MergedParents(parents, RootHead, remote.tracking, FALSE)
     ELSE UNCHANGED <<branches, parents>>
  /\ ap' = IF ok THEN [Issued(ap, "merge origin", ok) EXCEPT !.pc = "syncCheckoutBack"]
           ELSE ApplyFail(Issued(ap, "merge origin", ok), "MergeFailure")
  /\ UNCHANGED <<container, dirs, rootBranch, remote, st, pr, events, env>>

\* lines 133-136: git merge origin/main, fast-forward allowed
syncMerge(ok) ==
  /\ ap.pc = "syncMerge"
  /\ IF ok
     THEN /\ branches' = [branches EXCEPT ![rootBranch] =
                            MergedHead(parents, RootHead, remote.tracking, FALSE)]
          /\ parents' = MergedParents(parents, RootHead, remote.tracking, FALSE)
     ELSE UNCHANGED <<branches, parents>>
  /\ ap' = [Issued(ap, "merge origin", ok) EXCEPT
              !.pc = IF ok THEN "syncCheckoutBack" ELSE "syncRestore"]
  /\ UNCHANGED <<container, dirs, rootBranch, remote, st, pr, events, env>>

\* lines 138-141: git checkout <currentBranch> in the root
syncCheckoutBack(ok) ==
  /\ ap.pc = "syncCheckoutBack"
  /\ LET done == ok /\ CheckoutOk(dirs, branches, rootBranch, ap.currentBranch) IN
       /\ rootBranch' = IF done THEN ap.currentBranch ELSE rootBranch
       /\ ap' = [Issued(ap, "checkout agent", done) EXCEPT
                   !.pc = IF done THEN "mergeCheckout" ELSE "syncRestore"]
  /\ UNCHANGED <<container, dirs, branches, parents, remote, st, pr, events, env>>

\* mutant of syncRestore: after a failed update the remote check is run again
syncRestoreRechecking(ok) ==
  /\ ap.pc = "syncRestore"
  /\ LET done == ok /\ CheckoutOk(dirs, branches, rootBranch, ap.currentBranch) IN
       /\ rootBranch' = IF done THEN ap.currentBranch ELSE rootBranch
       /\ ap' = [Issued(ap, "checkout agent", done) EXCEPT !.pc = "checkRemote"]
  /\ UNCHANGED <<container, dirs, branches, parents, remote, st, pr, events, env>>

\* lines 143-154: the update failed; one more checkout of the current branch,
\* its failure ignored
syncRestore(ok) ==
  /\ ap.pc = "syncRestore"
  /\ LET done == ok /\ CheckoutOk(dirs, branches, rootBranch, ap.currentBranch) IN
       /\ rootBranch' = IF done THEN ap.currentBranch ELSE rootBranch
       /\ ap' = [Issued(ap, "checkout agent", done) EXCEPT !.pc = "mergeCheckout"]
  /\ UNCHANGED <<container, dirs, branches, parents, remote, st, pr, events, env>>

\* lines 165-168 and the catch of 204-212: git checkout main in the root
mergeCheckout(ok) ==
  /\ ap.pc = "mergeCheckout"
  /\ LET done == ok /\ CheckoutOk(dirs, branches, rootBranch, BASE_BRANCH) IN
       /\ rootBranch' = IF done THEN BASE_BRANCH ELSE rootBranch
       /\ ap' = IF done THEN [Issued(ap, "checkout base", TRUE) EXCEPT !.pc = "merge"]
                ELSE ApplyFail(Issued(ap, "checkout base", FALSE), "MergeFailure")
  /\ UNCHANGED <<container, dirs, branches, parents, remote, st, pr, events, env>>

\* mutant of AfterMerge: without a terminal the worktree is removed unasked
AfterMergeUnattended(rec) ==
  IF rec.autoCleanup \/ ~rec.tty THEN "removeWorktree" ELSE "confirmCleanup"

\* the stage after a successful merge, lines 184-203
AfterMerge(rec) ==
  IF rec.autoCleanup THEN "removeWorktree"
  ELSE IF rec.tty THEN "confirmCleanup"
  ELSE "done"

\* mutant of applyMerge: cleanup is entered on a failed merge as well
applyMergeThenCleanup(ok) ==
  /\ ap.pc = "merge"
  /\ LET done == ok /\ ap.currentBranch \in DOMAIN branches IN
       /\ IF done
          THEN /\ branches' = [branches EXCEPT ![rootBranch] =
                                 MergedHead(parents, RootHead,
                                            branches[ap.currentBranch], TRUE)]
               /\ parents' = MergedParents(parents, RootHead,
                                           branches[ap.currentBranch], TRUE)
          ELSE UNCHANGED <<branches, parents>>
       /\ ap' = [Issued(ap, "merge", done) EXCEPT !.pc = AfterMerge(ap),
                   !.exit = IF AfterMerge(ap) = "done" THEN 0 ELSE @]
  /\ UNCHANGED <<container, dirs, rootBranch, remote, st, pr, events, env>>

\* mutant of applyMerge: after a failed merge the root working copy, when
\* apply was run in it, is put back on the branch it was on
applyMergeRestoring(ok) ==
  /\ ap.pc = "merge"
  /\ LET done == ok /\ ap.currentBranch \in DOMAIN branches IN
       /\ IF done
          THEN /\ branches' = [branches EXCEPT ![rootBranch] =
                                 MergedHead(parents, RootHead,
                                            branches[ap.currentBranch], TRUE)]
               /\ parents' = MergedParents(parents, RootHead,
                                           branches[ap.currentBranch], TRUE)
          ELSE UNCHANGED <<branches, parents>>
       /\ rootBranch' = IF ~done /\ ap.cwd = Root THEN ap.currentBranch
                        ELSE rootBranch
       /\ ap' = IF done
                THEN [Issued(ap, "merge", TRUE) EXCEPT !.pc = AfterMerge(ap),
                        !.exit = IF AfterMerge(ap) = "done" THEN 0 ELSE @]
                ELSE ApplyFail(Issued(ap, "merge", FALSE), "MergeFailure")
  /\ UNCHANGED <<container, dirs, remote, st, pr, events, env>>

\* lines 173-180 and the catch of 204-212: git merge --no-ff <currentBranch>
applyMerge(ok) ==
  /\ ap.pc = "merge"
  /\ LET done == ok /\ ap.currentBranch \in DOMAIN branches IN
       /\ IF done
          THEN /\ branches' = [branches EXCEPT ![rootBranch] =
                                 MergedHead(parents, RootHead,
                                            branches[ap.currentBranch], TRUE)]
               /\ parents' = MergedParents(parents, RootHead,
                                           branches[ap.currentBranch], TRUE)
          ELSE UNCHANGED <<branches, parents>>
       /\ ap' = IF done
                THEN [Issued(ap, "merge", TRUE) EXCEPT !.pc = AfterMerge(ap),
                        !.exit = IF AfterMerge(ap) = "done" THEN 0 ELSE @]
                ELSE ApplyFail(Issued(ap, "merge", FALSE), "MergeFailure")
  /\ UNCHANGED <<container, dirs, rootBranch, remote, st, pr, events, env>>

\* lines 187-198: the cleanup prompt
confirmCleanup(answer) ==
  /\ ap.pc = "confirmCleanup"
  /\ ap' = IF confirm(answer)
           THEN [ap EXCEPT !.pc = "removeWorktree", !.answer = answer]
           ELSE [ap EXCEPT !.pc = "done", !.exit = 0, !.answer = answer]
  /\ UNCHANGED <<repo, remote, st, pr, events, env>>

\* mutant of applyRemoveWorktree: a failed removal is raised to the caller
applyRemoveWorktreeRaising(ok) ==
  /\ ap.pc = "removeWorktree"
  /\ LET done == ok /\ WorktreeRemoveOk(dirs, ap.descriptor.worktreeName) IN
       /\ dirs' = IF done THEN RemoveKey(dirs, ap.descriptor.worktreeName) ELSE dirs
       /\ ap' = IF done
                THEN [Issued(ap, "worktree remove", done) EXCEPT !.pc = "removeBranch"]
                ELSE ApplyFail(Issued(ap, "worktree remove", done), "MergeFailure")
  /\ events' = LogRemoval(events)
  /\ UNCHANGED <<container, branches, rootBranch, parents, remote, st, pr, env>>

\* removeWorktree lines 234-245, called by apply
applyRemoveWorktree(ok) ==
  /\ ap.pc = "removeWorktree"
  /\ LET done == ok /\ WorktreeRemoveOk(dirs, ap.descriptor.worktreeName) IN
       /\ dirs' = IF done THEN RemoveKey(dirs, ap.descriptor.worktreeName) ELSE dirs
       /\ ap' = [Issued(ap, "worktree remove", done) EXCEPT !.pc = "removeBranch"]
  /\ events' = LogRemoval(events)
  /\ UNCHANGED <<container, branches, rootBranch, parents, remote, st, pr, env>>

\* removeWorktree lines 247-254, called by apply
applyRemoveBranch(ok) ==
  /\ ap.pc = "removeBranch"
  /\ LET done == ok /\ BranchDeleteOk(dirs, branches, rootBranch,
                                      ap.descriptor.branchName) IN
       /\ branches' = IF done THEN RemoveKey(branches, ap.descriptor.branchName)
                      ELSE branches
       /\ ap' = [Issued(ap, "branch -D", done) EXCEPT !.pc = "done", !.exit = 0]
  /\ UNCHANGED <<container, dirs, rootBranch, parents, remote, st, pr, events, env>>

ApplyStep ==
  \/ \E cwd \in {Root} \cup DOMAIN dirs, autoCleanup, tty \in BOOLEAN :
       applyAgent(cwd, autoCleanup, tty)
  \/ \E ok \in BOOLEAN : applyValidateContext(ok)
  \/ \E fetchOk, countOk \in BOOLEAN : checkRemoteAhead(fetchOk, countOk)
  \/ \E answer \in Answers : confirmFetch(answer)
  \/ \E ok \in BOOLEAN : syncFetch(ok)
  \/ \E ok \in BOOLEAN : syncCheckout(ok)
  \/ \E ok \in BOOLEAN : syncMerge(ok)
  \/ \E ok \in BOOLEAN : syncCheckoutBack(ok)
  \/ \E ok \in BOOLEAN : syncRestore(ok)
  \/ \E ok \in BOOLEAN : mergeCheckout(ok)
  \/ \E ok \in BOOLEAN : applyMerge(ok)
  \/ \E answer \in Answers : confirmCleanup(answer)
  \/ \E ok \in BOOLEAN : applyRemoveWorktree(ok)
  \/ \E ok \in BOOLEAN : applyRemoveBranch(ok)

(***************************************************************************)
(* The people around the tool: commits and the remote.                     *)
(***************************************************************************)
\* a commit made in the working copy at cwd (the agent's work in a worktree,
\* or the user's on the branch of the root)
userCommit(cwd) ==
  /\ AllAtRest
  /\ Cardinality(DOMAIN parents) < MaxCommits
  /\ HeadBranch(dirs, rootBranch, cwd) \in DOMAIN branches
  /\ LET b == HeadBranch(dirs, rootBranch, cwd) IN
       /\ parents' = AddCommit(parents, <<branches[b]>>)
       /\ branches' = [branches EXCEPT ![b] = NewCommit(parents)]
  /\ UNCHANGED <<container, dirs, rootBranch, remote, st, pr, ap, events, env>>

\* git push -u origin main: the base branch gets its upstream
remoteAdd ==
  /\ AllAtRest
  /\ ~remote.upstream
  /\ remote' = [upstream |-> TRUE, tracking |-> branches[BASE_BRANCH],
                head |-> branches[BASE_BRANCH]]
  /\ UNCHANGED <<repo, st, pr, ap, events, env>>

\* somebody else pushes a commit to the remote base branch
remotePush ==
  /\ AllAtRest
  /\ remote.upstream
  /\ Cardinality(DOMAIN parents) < MaxCommits
  /\ parents' = AddCommit(parents, <<remote.head>>)
  /\ remote' = [remote EXCEPT !.head = NewCommit(parents)]
  /\ UNCHANGED <<container, dirs, branches, rootBranch, st, pr, ap, events, env>>

UserStep ==
  \/ \E cwd \in {Root} \cup DOMAIN dirs : userCommit(cwd)
  \/ remoteAdd
  \/ remotePush

(***************************************************************************)
(* SpecLifecycle: one user creating and removing worktrees, one command at *)
(* a time, from a fresh repository.                                        *)
(***************************************************************************)
SeqAgentArgs == { <<"w">> }
SeqWorktreeArgs == { NoName, <<"s">> }
SeqAnswers == { <<"n">>, <<"y">> }

NextLifecycle ==
  \/ StartStepWith(1, SeqAgentArgs, SeqWorktreeArgs, BOOLEAN, MaxStarts, TRUE)
  \/ PruneStepWith(SeqAnswers)

SpecLifecycle == InitFresh /\ [][NextLifecycle]_vars

\* parseInt of a run of digits
DigitValue(c) == (CHOOSE i \in 1..Len(DigitChars) : DigitChars[i] = c) - 1
RECURSIVE ParseDigits(_)
ParseDigits(digits) ==
  IF digits = <<>> THEN 0
  ELSE 10 * ParseDigits(SubSeq(digits, 1, Len(digits) - 1))
       + DigitValue(digits[Len(digits)])

\* the integer suffix of a default name: 0 for the base itself
SuffixOf(base, name) ==
  IF name = base THEN 0
  ELSE ParseDigits(SubSeq(name, Len(base) + 2, Len(name)))

\* the default name of suffix M
DefaultName(base, M) == IF M = 0 THEN base ELSE Suffixed(base, M)

\* the log positions of the descriptors returned by default creates
DefaultCreates ==
  { i \in 1..Len(events) : events[i].op = "created" /\ ~events[i].explicit }

RemovalBetween(i, j) == \E k \in (i + 1)..(j - 1) : events[k].op = "remove"

\* this step returns the descriptor of a default create
ReturnsDefault ==
  /\ Len(events') = Len(events) + 1
  /\ events'[Len(events')].op = "created"
  /\ ~events'[Len(events')].explicit

PruneWorktreeArgs == { NoName, <<"s">>, <<"w">> }
PruneStarts == MaxStarts - 1

\* the reserved entry of the container that holds the files copied into
\* every new worktree
TemplateName == <<"t","e","m","p","l","a","t","e">>

\* ensure_template_directory, run by the start script: mkdir -p of the
\* template directory, a plain directory under the container
ensure_template_directory ==
  /\ AllAtRest
  /\ TemplateName \notin DOMAIN dirs
  /\ container' = TRUE
  /\ dirs' = [d \in DOMAIN dirs \cup {TemplateName} |->
               IF d = TemplateName THEN NoBranch ELSE dirs[d]]
  /\ UNCHANGED <<branches, rootBranch, parents, remote, st, pr, ap, events, env>>

NextPrune ==
  \/ StartStepWith(1, SeqAgentArgs, PruneWorktreeArgs, BOOLEAN, PruneStarts, TRUE)
  \/ PruneStep
  \/ ensure_template_directory

SpecPrune == InitFresh /\ [][NextPrune]_vars

\* the answers that are y or yes, whatever their case and the blanks around
AffirmativeAnswers == { <<"y">>, <<" ","Y","e","s"," ">> }

\* C16: prune goes on to remove a listed worktree exactly when the session
\* is on a terminal and the answer given for that item is y or yes; any other
\* answer, the empty one included, skips the item, and without a terminal no
\* step of prune changes the repository.
C16_PruneOnlyOnYes ==
  /\ [](pr.pc \in {"removeWorktree", "removeBranch"} =>
          pr.tty /\ pr.answer \in AffirmativeAnswers)
  /\ [][(pr.pc = "loop" /\ pr'.todo # pr.todo) =>
          /\ (pr'.pc = "removeWorktree")
               <=> (pr.tty /\ pr'.answer \in AffirmativeAnswers)
          /\ repo' = repo]_vars
  /\ [][(pr.pc \notin {"idle", "exited"} /\ ~pr.tty) => repo' = repo]_vars

\* C16 witness: on a terminal, an item was skipped on the empty answer and is
\* still there with its branch
C16_Witness ==
  /\ pr.tty
  /\ pr.pc = "loop"
  /\ pr.answer = <<>>
  /\ pr.current \in DOMAIN dirs
  /\ buildBranchName(pr.current) \in DOMAIN branches

\* prune has just been through both removal commands for the item at hand,
\* and both succeeded
PrunedItem ==
  /\ pr.pc = "loop"
  /\ pr.tty
  /\ pr.answer \in AffirmativeAnswers
  /\ pr.removed
  /\ pr.deleted

\* C17: once prune has removed an item on an affirmative answer, both
\* commands succeeding, neither the item's directory nor the branch that was
\* checked out in it exists, however the worktree was created.
C17_PruneRemovesBoth ==
  PrunedItem =>
    /\ pr.current \notin DOMAIN dirs
    /\ pr.head \notin DOMAIN branches

\* the case of C17 that holds: a worktree whose branch is prl/<its name>
C17_DefaultPruned ==
  /\ PrunedItem
  /\ pr.head = buildBranchName(pr.current)
  /\ pr.current \notin DOMAIN dirs
  /\ pr.head \notin DOMAIN branches

\* C18: the listing has one descriptor for each directory under the
\* container except the template, with the branch name prl/<entry>; it is
\* empty without a container; the template is never offered by prune.
C18_ListExcludesTemplate ==
  /\ Descriptors(dirs, container) =
       IF container
       THEN { [worktreeName |-> d, branchName |-> PrlPrefix \o d] :
                d \in DOMAIN dirs \ {TemplateName} }
       ELSE {}
  /\ TemplateName \notin pr.todo
  /\ pr.current # TemplateName

\* the template is offered by prune and the operator is asked about it
C18_TemplateOffered ==
  /\ pr.pc = "loop"
  /\ pr.tty
  /\ pr.current = TemplateName
  /\ pr.answer = <<"n">>

(***************************************************************************)
(* SpecApply: commits, the remote and apply, over repositories that start  *)
(* sessions have left behind.                                              *)
(***************************************************************************)
\* the managed worktrees at the start: none; the one of a default session
\* of agent w; that and the one of a session with the explicit name s
SeededDirs ==
  { <<>>,
    [d \in {<<"w">>} |-> buildBranchName(d)],
    [d \in {<<"w">>, <<"s">>} |->
       IF d = <<"w">> THEN buildBranchName(d)
       ELSE findAvailableBranchName([b \in {buildBranchName(<<"w">>)} |-> 1], <<"w">>)] }

InitApply ==
  /\ \E ds \in SeededDirs :
       /\ dirs = ds
       /\ container = (ds # <<>>)
       /\ branches = [b \in {BASE_BRANCH} \cup {ds[d] : d \in DOMAIN ds} |-> 1]
  /\ rootBranch = BASE_BRANCH
  /\ parents = [c \in {1} |-> <<>>]
  /\ st = [p \in Procs |-> IdleStart]
  /\ remote = NoRemote
  /\ pr = IdlePrune
  /\ ap = IdleApply
  /\ events = <<>>
  /\ env = NoInvocation

NextApply ==
  \/ ApplyStep
  \/ UserStep

SpecApply == InitApply /\ [][NextApply]_vars

\* the merge step of apply went through
MergeSucceeds == ap.pc = "merge" /\ ap'.pc \notin {"merge", "failed"}

\* the base branch moves to a new commit whose parents are the previous base
\* head and the agent branch head, in this order
TwoParentMerge ==
  /\ branches'[BASE_BRANCH] \notin DOMAIN parents
  /\ parents'[branches'[BASE_BRANCH]] =
       <<branches[BASE_BRANCH], branches[ap.currentBranch]>>

OnBase ==
  IF ap.cwd \in DOMAIN dirs /\ dirs[ap.cwd] # NoBranch
  THEN dirs[ap.cwd] = BASE_BRANCH
  ELSE rootBranch = BASE_BRANCH

\* C4: apply run while the current branch is the base branch ends Failed
\* with a context error and exit status 1, having issued no command: the
\* repository and the remote-tracking state are unchanged, with or without
\* managed worktrees.
C4_OnBaseFails ==
  [][(ap.pc = "validateContext" /\ OnBase) =>
       /\ ap'.pc = "failed"
       /\ ap'.error = "ContextError"
       /\ ap'.exit = 1
       /\ ap'.ops = <<>>
       /\ repo' = repo
       /\ remote' = remote]_vars

\* C4 witness: an apply run on the base branch has failed while managed
\* worktrees exist
C4_Witness ==
  /\ ap.pc = "failed"
  /\ ap.error = "ContextError"
  /\ ap.currentBranch = BASE_BRANCH
  /\ DOMAIN dirs # {}

Removals(ops) ==
  { i \in 1..Len(ops) : ops[i].cmd \in {"worktree remove", "branch -D"} }

\* the command issued by this step of the Merge stage failed
MergeStageFails ==
  /\ ap.pc \in {"mergeCheckout", "merge"}
  /\ Len(ap'.ops) = Len(ap.ops) + 1
  /\ ~ap'.ops[Len(ap'.ops)].ok

\* C5: when the checkout of base or the merge fails, apply is Failed with
\* exit status 1 and the failure as its error, no removal is ever issued by
\* a failed apply (with auto-cleanup or without), and the agent's directory
\* and branch are still there.
C5_MergeFailureKeepsWorktree ==
  /\ [](ap.pc = "failed" => Removals(ap.ops) = {})
  /\ [][MergeStageFails =>
          /\ ap'.pc = "failed"
          /\ ap'.exit = 1
          /\ ap'.error = "MergeFailure"
          /\ ap.descriptor.worktreeName \in DOMAIN dirs'
          /\ dirs'[ap.descriptor.worktreeName] = ap.descriptor.branchName
          /\ ap.descriptor.branchName \in DOMAIN branches']_vars

\* C5 witness: an apply with auto-cleanup failed in its merge, and the
\* worktree and the branch it was run for exist
C5_Witness ==
  /\ ap.pc = "failed"
  /\ ap.error = "MergeFailure"
  /\ ap.autoCleanup
  /\ ap.ops[Len(ap.ops)] = [cmd |-> "merge", ok |-> FALSE]
  /\ ap.descriptor.worktreeName \in DOMAIN dirs
  /\ ap.descriptor.branchName \in DOMAIN branches

\* the command last issued by apply
LastOp(rec) == rec.ops[Len(rec.ops)]

\* C13: remove never raises: the forced worktree removal is issued first and,
\* whether it succeeded or failed, the forced branch deletion is issued next;
\* whether that succeeded or failed, the caller goes on normally (apply ends
\* Done with exit status 0).
C13_RemoveNeverRaises ==
  /\ [](ap.pc = "failed" => Removals(ap.ops) = {})
  /\ [][/\ ap.pc = "removeWorktree" =>
             /\ ap'.pc = "removeBranch"
             /\ ap'.error = "none"
             /\ Len(ap'.ops) = Len(ap.ops) + 1
             /\ LastOp(ap').cmd = "worktree remove"
        /\ ap.pc = "removeBranch" =>
             /\ LastOp(ap).cmd = "worktree remove"
             /\ ap'.pc = "done"
             /\ ap'.exit = 0
             /\ ap'.error = "none"
             /\ Len(ap'.ops) = Len(ap.ops) + 1
             /\ LastOp(ap').cmd = "branch -D"]_vars

\* C13 witness: the worktree removal failed, the branch deletion was issued
\* after it and failed too, and apply is Done
C13_Witness ==
  /\ ap.pc = "done"
  /\ Len(ap.ops) >= 2
  /\ ap.ops[Len(ap.ops) - 1] = [cmd |-> "worktree remove", ok |-> FALSE]
  /\ LastOp(ap) = [cmd |-> "branch -D", ok |-> FALSE]

\* C19: after a successful merge, apply with auto-cleanup goes straight to
\* the removal; without it, on a terminal, it asks and removes exactly on an
\* answer that is y or yes; without a terminal it removes nothing and ends
\* with exit status 0, the worktree's directory and branch still there.
C19_CleanupDecision ==
  /\ [](ap.pc = "confirmCleanup" => ~ap.autoCleanup /\ ap.tty)
  /\ [](Removals(ap.ops) # {} \/ ap.pc \in {"removeWorktree", "removeBranch"} =>
          \/ ap.autoCleanup
          \/ ap.tty /\ ap.answer \in AffirmativeAnswers)
  /\ []((ap.pc = "done" /\ ~ap.autoCleanup /\ ~ap.tty) =>
          /\ ap.exit = 0
          /\ Removals(ap.ops) = {}
          /\ ap.descriptor.worktreeName \in DOMAIN dirs
          /\ dirs[ap.descriptor.worktreeName] = ap.descriptor.branchName
          /\ ap.descriptor.branchName \in DOMAIN branches)
  /\ [][MergeSucceeds =>
          ap'.pc = IF ap.autoCleanup THEN "removeWorktree"
                   ELSE IF ap.tty THEN "confirmCleanup" ELSE "done"]_vars
  /\ [][ap.pc = "confirmCleanup" =>
          /\ ap'.pc = IF ap'.answer \in AffirmativeAnswers
                      THEN "removeWorktree" ELSE "done"
          /\ ap'.pc = "done" => ap'.exit = 0
          /\ repo' = repo]_vars

\* C19 witness: an apply without auto-cleanup and without a terminal is Done
\* after its merge, and the worktree and its branch exist
C19_Witness ==
  /\ ap.pc = "done"
  /\ ~ap.autoCleanup
  /\ ~ap.tty
  /\ LastOp(ap) = [cmd |-> "merge", ok |-> TRUE]
  /\ ap.descriptor.worktreeName \in DOMAIN dirs
  /\ ap.descriptor.branchName \in DOMAIN branches

(***************************************************************************)
(* SpecContext: apply where the user has left the agent branch in a        *)
(* worktree: by `git checkout -b f` in the worktree s, and in one of the   *)
(* two repositories by `git checkout --detach` in the worktree w.          *)
(***************************************************************************)
\* a branch of the user's own, outside the managed namespace
FeatureBranch == <<"f">>

ForeignDirs ==
  { [d \in {<<"w">>, <<"s">>} |->
       IF d = <<"w">> THEN h ELSE FeatureBranch] :
    h \in {buildBranchName(<<"w">>), DetachedHead} }

InitContext ==
  /\ dirs \in ForeignDirs
  /\ container = TRUE
  /\ branches =
       [b \in {BASE_BRANCH, FeatureBranch, buildBranchName(<<"w">>),
               findAvailableBranchName([x \in {buildBranchName(<<"w">>)} |-> 1],
                                       <<"w">>)} |-> 1]
  /\ rootBranch = BASE_BRANCH
  /\ parents = [c \in {1} |-> <<>>]
  /\ st = [p \in Procs |-> IdleStart]
  /\ remote = NoRemote
  /\ pr = IdlePrune
  /\ ap = IdleApply
  /\ events = <<>>
  /\ env = NoInvocation

SpecContext == InitContext /\ [][NextApply]_vars

\* the head of the working copy apply is run in
CwdHead ==
  IF ap.cwd \in DOMAIN dirs /\ dirs[ap.cwd] # NoBranch
  THEN dirs[ap.cwd] ELSE rootBranch

\* a branch name that does not begin with prl/
LacksPrefix(b) == Len(b) < 4 \/ SubSeq(b, 1, 4) # <<"p","r","l","/">>

\* C20: apply run on a detached head, or on a branch whose name does not
\* begin with prl/, fails while validating its context: it is Failed with a
\* context error and exit status 1 having issued no fetch, checkout, merge
\* or removal, and the repository and the remote-tracking state are unchanged.
C20_ForeignHeadFails ==
  /\ []((ap.pc = "failed" /\ ap.error = "ContextError") => ap.ops = <<>>)
  /\ [][(ap.pc = "validateContext"
           /\ (CwdHead = DetachedHead \/ LacksPrefix(CwdHead))) =>
          /\ ap'.pc = "failed"
          /\ ap'.error = "ContextError"
          /\ ap'.exit = 1
          /\ ap'.ops = <<>>
          /\ repo' = repo
          /\ remote' = remote]_vars

\* C20 witness: an apply run in a worktree on the user's own branch has
\* failed, the agent branch of that worktree still there, while another
\* worktree is on a detached head
C20_Witness ==
  /\ ap.pc = "failed"
  /\ ap.error = "ContextError"
  /\ ap.currentBranch = FeatureBranch
  /\ ap.cwd \in DOMAIN dirs
  /\ dirs[ap.cwd] = FeatureBranch
  /\ \E d \in DOMAIN dirs : dirs[d] = DetachedHead

\* an apply run on a detached head has failed
C20_DetachedFailed ==
  /\ ap.pc = "failed"
  /\ ap.error = "ContextError"
  /\ ap.currentBranch = DetachedHead

\* C21: apply run on a branch prl/<name> while no directory <name> exists
\* under the container fails while validating its context with the
\* orphaned-branch error, never with the generic lookup failure, and issues
\* no command: no merge is attempted.
C21_OrphanedBranchError ==
  /\ [](ap.error \in {"OrphanedBranch", "LookupFailure"} =>
          ap.pc = "failed" /\ ap.ops = <<>>)
  /\ [][(/\ ap.pc = "validateContext"
         /\ ~LacksPrefix(CwdHead)
         /\ ap'.pc # "validateContext"
         /\ ap'.currentBranch = CwdHead
         /\ ~(container /\ SubSeq(CwdHead, 5, Len(CwdHead)) \in DOMAIN dirs)) =>
          /\ ap'.pc = "failed"
          /\ ap'.error = "OrphanedBranch"
          /\ ap'.exit = 1
          /\ ap'.ops = <<>>
          /\ repo' = repo]_vars

\* C21 witness: apply run in the worktree s, whose branch is prl/w-1, has
\* failed with the orphaned-branch error: there is no directory w-1
C21_Witness ==
  /\ ap.pc = "failed"
  /\ ap.error = "OrphanedBranch"
  /\ ap.cwd = <<"s">>
  /\ ap.cwd \in DOMAIN dirs
  /\ ap.currentBranch = dirs[ap.cwd]
  /\ StartsWithPrefix(ap.currentBranch)

(***************************************************************************)
(* SpecApplyFair: SpecApply where a command issued while base is being     *)
(* updated from the remote returns: each one is awaited, and none waits    *)
(* for input.                                                              *)
(***************************************************************************)
SyncStep ==
  \/ \E ok \in BOOLEAN : syncFetch(ok)
  \/ \E ok \in BOOLEAN : syncCheckout(ok)
  \/ \E ok \in BOOLEAN : syncMerge(ok)
  \/ \E ok \in BOOLEAN : syncCheckoutBack(ok)
  \/ \E ok \in BOOLEAN : syncRestore(ok)

SpecApplyFair == InitApply /\ [][NextApply]_vars /\ WF_vars(SyncStep)

\* the positions of apply inside the update of base
SyncStages ==
  {"syncFetch", "syncCheckout", "syncMerge", "syncCheckoutBack", "syncRestore"}

\* C22: once the update of base has begun, no failure of its steps ends
\* apply: every step stays in the update or goes on to the merge stage with
\* no error and no exit status set; the merge stage is always reached; and
\* the step that reaches it is a checkout of the agent branch, on the
\* success path and on every failure path.
C22_SyncNeverAborts ==
  /\ [][ap.pc \in SyncStages =>
          /\ ap'.pc \in SyncStages \cup {"mergeCheckout"}
          /\ ap'.error = "none"
          /\ ap'.exit = ap.exit
          /\ Len(ap'.ops) = Len(ap.ops) + 1]_vars
  /\ [][(ap.pc \in SyncStages /\ ap'.pc = "mergeCheckout") =>
          LastOp(ap').cmd = "checkout agent"]_vars
  /\ (ap.pc \in SyncStages ~> ap.pc = "mergeCheckout")

\* C22 witness: the merge of the remote ref failed, the agent branch was
\* then checked out, or tried to be, and apply is at its merge stage
C22_Witness ==
  /\ ap.pc = "mergeCheckout"
  /\ Len(ap.ops) >= 2
  /\ ap.ops[Len(ap.ops) - 1] = [cmd |-> "merge origin", ok |-> FALSE]
  /\ LastOp(ap).cmd = "checkout agent"

\* the remote check of this step ran both its commands with success
CheckRan ==
  /\ Len(ap'.ops) = Len(ap.ops) + 2
  /\ ap'.ops[Len(ap'.ops) - 1] = [cmd |-> "fetch", ok |-> TRUE]
  /\ LastOp(ap') = [cmd |-> "rev-list", ok |-> TRUE]

StageOf(pc) ==
  CASE pc = "validateContext" -> 1
    [] pc \in {"checkRemote", "confirmFetch"} -> 2
    [] pc \in SyncStages -> 3
    [] pc \in {"mergeCheckout", "merge"} -> 4
    [] pc \in {"confirmCleanup", "removeWorktree", "removeBranch"} -> 5
    [] OTHER -> 6

\* within an invocation apply never goes back to an earlier stage, is in its
\* merge stage only with the descriptor found by the validation, and in its
\* cleanup only with the merge of the agent branch done
StagesInOrder ==
  /\ [][ap.pc \notin {"idle", "done", "failed"} =>
          StageOf(ap'.pc) >= StageOf(ap.pc)]_vars
  /\ [][(ap.pc \in {"idle", "done", "failed"} /\ ap' # ap) =>
          ap'.pc = "validateContext" /\ ap'.ops = <<>>]_vars
  /\ [](ap.pc \in {"mergeCheckout", "merge"} =>
          /\ ap.descriptor # NoDescriptor
          /\ ap.descriptor.branchName = ap.currentBranch
          /\ ~LacksPrefix(ap.currentBranch))
  /\ [](ap.pc \in {"confirmCleanup", "removeWorktree", "removeBranch", "done"} =>
          \E i \in 1..Len(ap.ops) : ap.ops[i] = [cmd |-> "merge", ok |-> TRUE])

\* the commands a failed invocation of which is followed by another one
Reattempted(ops) ==
  { i \in 1..Len(ops) :
      ~ops[i].ok /\ \E j \in (i + 1)..Len(ops) : ops[j].cmd = ops[i].cmd }

\* C24 (as amended): the stages of one apply run in their fixed order, none
\* entered again once left, the merge stage only after a successful
\* validation and the cleanup only after a successful merge; a command that
\* failed is issued again only in two places, each once: the checkout of the
\* agent branch that ends the update of base, by the failure handler of that
\* update, and the checkout of base that failed in the update, by the merge
\* stage; no fetch, merge or removal that failed is issued again.
C24_LinearStages ==
  /\ StagesInOrder
  /\ [](\A i \in Reattempted(ap.ops) :
          /\ ap.ops[i].cmd \in {"checkout agent", "checkout base"}
          /\ Cardinality({ j \in 1..Len(ap.ops) : ap.ops[j].cmd = ap.ops[i].cmd }) = 2
          /\ ap.ops[i].cmd = "checkout agent" =>
               ap.ops[i + 1].cmd = "checkout agent")

\* C24 witness: the checkout of the agent branch failed at the end of the
\* update of base and was issued again by the failure handler, and apply
\* went on to its merge stage
C24_Witness ==
  /\ ap.pc \in {"mergeCheckout", "merge"}
  /\ \E i \in 1..Len(ap.ops) :
       /\ i + 1 <= Len(ap.ops)
       /\ ap.ops[i] = [cmd |-> "checkout agent", ok |-> FALSE]
       /\ ap.ops[i + 1].cmd = "checkout agent"
       /\ i > 1
       /\ ap.ops[i - 1] = [cmd |-> "merge origin", ok |-> TRUE]

\* C24 as stated: the stages in order, and no command that failed is ever
\* issued again within the invocation.
C24_NoReattempt ==
  /\ StagesInOrder
  /\ [](Reattempted(ap.ops) = {})

(***************************************************************************)
(* SpecExit: one start and any number of applies, one command at a time,   *)
(* in a repository whose base branch has an upstream one commit ahead.     *)
(***************************************************************************)
InitExit ==
  /\ \E ds \in SeededDirs :
       /\ dirs = ds
       /\ container = (ds # <<>>)
       /\ branches = [b \in {BASE_BRANCH} \cup {ds[d] : d \in DOMAIN ds} |-> 1]
  /\ rootBranch = BASE_BRANCH
  /\ parents = AddCommit([c \in {1} |-> <<>>], <<1>>)
  /\ st = [p \in Procs |-> IdleStart]
  /\ remote = [upstream |-> TRUE, tracking |-> 1,
               head |-> NewCommit([c \in {1} |-> <<>>])]
  /\ pr = IdlePrune
  /\ ap = IdleApply
  /\ events = <<>>
  /\ env = NoInvocation

NextExit ==
  \/ StartStepWith(1, SeqAgentArgs, SeqWorktreeArgs, BOOLEAN, 1, TRUE)
  \/ ApplyStep

SpecExit == InitExit /\ [][NextExit]_vars

\* the removal commands of apply that failed
FailedRemovals(ops) == { i \in Removals(ops) : ~ops[i].ok }

\* C25: a command that ends on an error it did not recover from exits with
\* a non-zero status: start on a missing agent command, an explicit-name
\* collision, a failed or interrupted creation; apply on a context error, an
\* orphaned branch, a failed checkout of base or a failed merge.  Apply that
\* reaches Done exits with status 0, and it reaches Done whenever its merge
\* succeeded, whatever became of the removal of the worktree and the branch.
C25_ExitStatus ==
  /\ [](\A p \in Procs :
          /\ st[p].error # "none" => st[p].pc = "exited" /\ st[p].exit = 1
          /\ (st[p].pc = "exited" /\ st[p].error = "none") => st[p].exit = 0)
  /\ [][(st[1].pc = "explicitCheck"
           /\ DirExists(dirs, container, st[1].worktreeName)) =>
          st'[1].pc = "exited" /\ st'[1].exit = 1]_vars
  /\ [][(st[1].pc = "creating" /\ st[1].git = "failed" /\ st'[1] # st[1]) =>
          st'[1].pc = "exited" /\ st'[1].exit = 1]_vars
  /\ [](ap.error # "none" <=> ap.pc = "failed")
  /\ [](ap.pc = "failed" => ap.exit = 1)
  /\ [](ap.pc = "done" => ap.exit = 0)
  /\ [](ap.pc \notin {"done", "failed"} => ap.exit = -1)
  /\ [][MergeStageFails \/ (ap.pc = "validateContext" /\ ap'.pc # "checkRemote") =>
          ap'.pc = "failed" /\ ap'.exit = 1]_vars
  /\ []((\E i \in 1..Len(ap.ops) : ap.ops[i] = [cmd |-> "merge", ok |-> TRUE]) =>
          ap.error = "none" /\ ap.exit \in {-1, 0})

\* C25 witness: a start has ended with status 1 on an explicit-name
\* collision, and an apply has ended with status 0 after its merge although
\* both of its removal commands failed
C25_Witness ==
  /\ st[1].pc = "exited"
  /\ st[1].error = "ValidationError"
  /\ st[1].exit = 1
  /\ ap.pc = "done"
  /\ ap.exit = 0
  /\ Cardinality(FailedRemovals(ap.ops)) = 2

(***************************************************************************)
(* A failing agent command after a successful creation.                    *)
(***************************************************************************)
\* the worktree of session p is in place on its branch, and the branch exists
Kept(ds, bs, p) ==
  /\ st[p].worktreeName \in DOMAIN ds
  /\ ds[st[p].worktreeName] = st[p].branchName
  /\ st[p].branchName \in DOMAIN bs

\* C27: after a successful creation a failing agent command neither ends the
\* session nor removes anything: the agent stage always hands over to the
\* shell stage without an error and without touching the repository, the
\* shell stage of such a session hands over to the cleanup prompt, the
\* prompt leads to removal only on a terminal with an affirmative answer,
\* and otherwise the session ends with status 0, its worktree and its branch
\* still there.
C27_AgentFailureKeepsSession ==
  /\ [][\A p \in Procs :
          (st[p].pc = "runAgentCommand" /\ st'[p] # st[p]) =>
            /\ st'[p].pc = "openWorktreeShell"
            /\ st'[p].error = "none"
            /\ repo' = repo]_vars
  /\ [][\A p \in Procs :
          (st[p].agentFailed /\ st[p].pc = "openWorktreeShell" /\ st'[p] # st[p]) =>
            /\ st'[p].pc = "askToPrune"
            /\ repo' = repo]_vars
  /\ [][\A p \in Procs :
          (st[p].agentFailed /\ st[p].pc = "askToPrune" /\ st'[p] # st[p]) =>
            /\ repo' = repo
            /\ Kept(dirs', branches', p)
            /\ \/ /\ st'[p].pc = "removeWorktree"
                  /\ st[p].tty
                  /\ st'[p].answer \in AffirmativeAnswers
               \/ /\ st'[p].pc = "exited"
                  /\ st'[p].exit = 0
                  /\ st'[p].error = "none"]_vars
  /\ [][\A p \in Procs :
          (st[p].agentFailed /\ ~(Kept(dirs', branches', p))) =>
            /\ st[p].pc \in {"removeWorktree", "removeBranch"}
            /\ st[p].tty
            /\ st[p].answer \in AffirmativeAnswers]_vars
  /\ [](\A p \in Procs : st[p].agentFailed =>
          /\ st[p].pc \in {"openWorktreeShell", "askToPrune",
                           "removeWorktree", "removeBranch"}
          /\ st[p].worktreeCreated
          /\ st[p].pc \in {"openWorktreeShell", "askToPrune"}
               => Kept(dirs, branches, p))

\* C27 witness: a session without a terminal whose agent had failed stands at
\* the cleanup prompt with its worktree and its branch in place
C27_Witness ==
  /\ st[1].agentFailed
  /\ ~st[1].tty
  /\ st[1].pc = "askToPrune"
  /\ Kept(dirs, branches, 1)

(***************************************************************************)
(* The descriptors of create and of the listing.                           *)
(***************************************************************************)
PRL_WORKTREES_DIR ==
  <<".","p","r","l","-","w","o","r","k","t","r","e","e","s">>

\* the repository root, an absolute path
RootPath == <<"/","r">>

\* dirname of a path without a trailing separator: what precedes its last
\* separator, "/" when that is the leading one, "." when there is none
dirname(path) ==
  LET seps == { i \in 1..Len(path) : path[i] = "/" } IN
    IF seps = {} THEN <<".">>
    ELSE LET last == CHOOSE i \in seps : \A j \in seps : j <= i IN
           IF last = 1 THEN <<"/">> ELSE SubSeq(path, 1, last - 1)

\* mutant of join: the two parts are concatenated without a separator
joinUnseparated(base, segment) == base \o segment

\* path.join of a directory and one segment that holds no separator: empty
\* and "." segments vanish, ".." goes one level up
join(base, segment) ==
  IF segment = <<>> \/ segment = <<".">> THEN base
  ELSE IF segment = <<".", ".">> THEN dirname(base)
  ELSE IF base = <<"/">> THEN base \o segment
  ELSE base \o <<"/">> \o segment

\* ensurePrlDirectory's result, and the prlDir of listWorktrees
prlDir == join(RootPath, PRL_WORKTREES_DIR)

\* the descriptor createWorktree returns to invocation p
CreatedDescriptor(p) ==
  [worktreeName |-> st[p].worktreeName,
   branchName |-> st[p].branchName,
   worktreePath |-> join(prlDir, st[p].worktreeName)]

\* the descriptors of the listing, with the path of each
ListedDescriptors(ds, cont) ==
  { [worktreeName |-> wt.worktreeName,
     branchName |-> wt.branchName,
     worktreePath |-> join(prlDir, wt.worktreeName)] :
      wt \in Descriptors(ds, cont) }

\* a descriptor whose branch is prl/<name> and whose path is
\* <root>/.prl-worktrees/<name>
WellFormed(wt) ==
  /\ wt.branchName = <<"p","r","l","/">> \o wt.worktreeName
  /\ wt.worktreePath =
       RootPath \o <<"/">> \o PRL_WORKTREES_DIR \o <<"/">> \o wt.worktreeName

\* C29: the descriptor returned by a create that was given no explicit name,
\* and every descriptor of the listing, has the branch name prl/<worktree
\* name> and the path <container>/<worktree name>.
C29_DescriptorShape ==
  /\ \A p \in Procs :
       (st[p].worktreeCreated /\ st[p].wtOpt = NoName)
         => WellFormed(CreatedDescriptor(p))
  /\ \A wt \in ListedDescriptors(dirs, container) : WellFormed(wt)

\* C29 witness: a create without an explicit name has returned a suffixed
\* name while the listing holds more than one descriptor
C29_Witness ==
  /\ st[1].worktreeCreated
  /\ st[1].wtOpt = NoName
  /\ st[1].worktreeName # st[1].baseName
  /\ st[1].worktreeName \in DOMAIN dirs
  /\ Cardinality(ListedDescriptors(dirs, container)) > 1

(***************************************************************************)
(* SpecRoot: the repository root as a command resolves it, in repositories *)
(* at different places, from the root, from directories below it and from  *)
(* a managed worktree and directories below that.                           *)
(***************************************************************************)
MaxDepth == 2

\* the characters of a directory name, the blank among them
PathChars == {"r", "s", " "}

\* absolute paths of one directory whose name neither starts nor ends with a
\* blank
RootPaths ==
  { <<"/">> \o name :
      name \in { n \in UNION { [1..k -> PathChars] : k \in 1..MaxLen } :
                   n[1] # " " /\ n[Len(n)] # " " } }

DotGit == <<".","g","i","t">>

\* the directory depth levels below top
RECURSIVE Below(_, _)
Below(top, depth) ==
  IF depth = 0 THEN top ELSE Below(top \o <<"/","d">>, depth - 1)

\* process.cwd(): in the main working copy or in the managed worktree w
cwdPath(repoPath, tree, depth) ==
  Below(IF tree = "main" THEN repoPath
        ELSE join(join(repoPath, PRL_WORKTREES_DIR), <<"w">>),
        depth)

\* what `git rev-parse --git-common-dir` prints: relative to the current
\* directory in the main working copy, absolute in a linked worktree
RECURSIVE Ups(_)
Ups(depth) ==
  IF depth = 0 THEN <<>> ELSE <<".", ".", "/">> \o Ups(depth - 1)

gitCommonDir(repoPath, tree, depth) ==
  IF tree = "main" THEN Ups(depth) \o DotGit
  ELSE join(repoPath, DotGit)

\* path.resolve of an absolute directory and a path
RECURSIVE resolve(_, _)
resolve(base, path) ==
  IF path # <<>> /\ path[1] = "/" THEN path
  ELSE IF Len(path) >= 3 /\ SubSeq(path, 1, 3) = <<".", ".", "/">>
    THEN resolve(dirname(base), SubSeq(path, 4, Len(path)))
  ELSE join(base, path)

\* getRepoRoot: the parent of the resolved common directory
getRepoRoot(repoPath, tree, depth) ==
  dirname(resolve(cwdPath(repoPath, tree, depth),
                  gitCommonDir(repoPath, tree, depth)))

\* xargs: its input cut into words at blanks
RECURSIVE Words(_, _)
Words(text, word) ==
  IF text = <<>> THEN (IF word = <<>> THEN <<>> ELSE <<word>>)
  ELSE IF text[1] = " "
    THEN (IF word = <<>> THEN <<>> ELSE <<word>>) \o Words(Tail(text), <<>>)
  ELSE Words(Tail(text), Append(word, text[1]))

\* dirname run on several operands: one line for each
RECURSIVE Lines(_)
Lines(words) ==
  IF words = <<>> THEN <<>>
  ELSE IF Len(words) = 1 THEN dirname(words[1])
  ELSE dirname(words[1]) \o <<"\n">> \o Lines(Tail(words))

\* get_repo_root: git rev-parse --git-common-dir | xargs dirname
get_repo_root(repoPath, tree, depth) ==
  Lines(Words(gitCommonDir(repoPath, tree, depth), <<>>))

InitRoot ==
  /\ container = FALSE
  /\ dirs = <<>>
  /\ branches = [b \in {BASE_BRANCH} |-> 1]
  /\ rootBranch = BASE_BRANCH
  /\ parents = [c \in {1} |-> <<>>]
  /\ st = [p \in Procs |-> IdleStart]
  /\ remote = NoRemote
  /\ pr = IdlePrune
  /\ ap = IdleApply
  /\ events = <<>>
  /\ \E path \in RootPaths : env = [NoInvocation EXCEPT !.repoPath = path]

\* a command of the program is run: createWorktree, listWorktrees and
\* describeWorktreeByBranch begin with getRepoRoot
nodeInvocation(tree, depth) ==
  /\ env' = [env EXCEPT !.tree = tree, !.depth = depth, !.by = "node",
                        !.root = getRepoRoot(env.repoPath, tree, depth)]
  /\ UNCHANGED <<repo, remote, st, pr, ap, events>>

\* a script is run: each begins with ROOT=$(get_repo_root) and uses $ROOT
\* from the directory it was run in
scriptInvocation(tree, depth) ==
  /\ env' = [env EXCEPT !.tree = tree, !.depth = depth, !.by = "sh",
                        !.root = resolve(cwdPath(env.repoPath, tree, depth),
                                         get_repo_root(env.repoPath, tree, depth))]
  /\ UNCHANGED <<repo, remote, st, pr, ap, events>>

NextRoot ==
  \/ \E tree \in {"main", "linked"}, depth \in 0..MaxDepth :
       nodeInvocation(tree, depth)
  \/ \E tree \in {"main", "linked"}, depth \in 0..MaxDepth :
       scriptInvocation(tree, depth)

SpecRoot == InitRoot /\ [][NextRoot]_vars

\* C30 (as claimed): whichever directory a command is run in, the root of the
\* main working copy, a directory below it or a managed worktree, the root
\* it resolves is the repository's, and so is the container under it.
C30_SameRootEverywhere ==
  env.by # "none" =>
    /\ env.root = env.repoPath
    /\ join(env.root, PRL_WORKTREES_DIR) = join(env.repoPath, PRL_WORKTREES_DIR)

\* a script run inside the managed worktree of a repository whose path
\* holds a blank has resolved something else than the repository's root
C30_ScriptRootInWorktree ==
  /\ env.by = "sh"
  /\ env.tree = "linked"
  /\ " " \in { env.repoPath[i] : i \in 1..Len(env.repoPath) }
  /\ env.root # env.repoPath

\* what holds of root resolution: getRepoRoot yields the repository's root
\* from every location, and so does get_repo_root from the main working
\* copy and wherever the repository's path holds no blank
RootResolvedWhere ==
  (env.by = "node"
     \/ (env.by = "sh" /\ env.tree = "main")
     \/ (env.by = "sh" /\ " " \notin { env.repoPath[i] : i \in 1..Len(env.repoPath) }))
    => env.root = env.repoPath

(***************************************************************************)
(* SpecPrompts: the repository is used by one kind of command, start,      *)
(* prune or apply, and every step that does not wait for the operator is   *)
(* eventually taken.  A step waits for the operator when it reads an       *)
(* answer from the terminal, runs the operator's shell or runs the agent.  *)
(***************************************************************************)
WaitsForOperator ==
  \/ pr.pc = "loop" /\ pr.todo # {} /\ pr.tty
  \/ ap.pc \in {"confirmFetch", "confirmCleanup"} /\ ap.tty
  \/ \E p \in Procs :
       \/ st[p].pc \in {"openWorktreeShell", "askToPrune"} /\ st[p].tty
       \/ st[p].pc = "runAgentCommand"

NextPrompts ==
  \/ /\ pr.pc = "idle" /\ ap.pc = "idle"
     /\ StartStepWith(1, SeqAgentArgs, SeqWorktreeArgs, BOOLEAN, 1, TRUE)
  \/ /\ st[1].pc = "idle" /\ ap.pc = "idle"
     /\ PruneStep
  \/ /\ st[1].pc = "idle" /\ pr.pc = "idle"
     /\ ApplyStep

\* a command without a terminal is under way: prune in its loop, start at
\* its cleanup prompt, apply anywhere
UnattendedRunning ==
  \/ pr.pc \notin {"idle", "exited"} /\ ~pr.tty
  \/ st[1].pc = "askToPrune" /\ ~st[1].tty
  \/ ap.pc \notin {"idle", "done", "failed"} /\ ~ap.tty

Unattended == NextPrompts /\ ~WaitsForOperator

SpecPrompts == InitExit /\ [][NextPrompts]_vars /\ WF_vars(Unattended)

\* C28: without a terminal no command waits for an answer.  prune skips
\* every item and start's cleanup prompt ends the session, whatever would
\* have been typed, apply never stands at a prompt, and each of the three
\* ends; on a terminal, a prompt is answered in the affirmative exactly by
\* an answer that is y or yes once trimmed and lower-cased.
C28_NoWaitWithoutTerminal ==
  /\ [][(pr.pc = "loop" /\ ~pr.tty /\ pr' # pr) =>
          /\ pr'.pc \in {"loop", "exited"}
          /\ repo' = repo]_vars
  /\ [][\A p \in Procs :
          (st[p].pc = "askToPrune" /\ ~st[p].tty /\ st'[p] # st[p]) =>
            /\ st'[p].pc = "exited"
            /\ st'[p].exit = 0
            /\ repo' = repo]_vars
  /\ [](ap.pc \in {"confirmFetch", "confirmCleanup"} => ap.tty)
  /\ UnattendedRunning ~> AllAtRest
  /\ [][(pr.pc = "loop" /\ pr.tty /\ pr.todo # {} /\ pr' # pr) =>
          (pr'.pc = "removeWorktree" <=> pr'.answer \in AffirmativeAnswers)]_vars
  /\ [][\A p \in Procs :
          (st[p].pc = "askToPrune" /\ st'[p].pc = "removeWorktree") =>
            st'[p].answer \in AffirmativeAnswers]_vars
  /\ [][(ap.pc = "confirmFetch" /\ ap' # ap) =>
          (ap'.pc = "syncFetch" <=> ap'.answer \in AffirmativeAnswers)]_vars
  /\ [][(ap.pc = "confirmCleanup" /\ ap' # ap) =>
          (ap'.pc = "removeWorktree" <=> ap'.answer \in AffirmativeAnswers)]_vars

\* C28 witness: a prune without a terminal has skipped the item it listed
\* and is about to end
C28_Witness ==
  /\ pr.pc = "loop"
  /\ ~pr.tty
  /\ pr.todo = {}
  /\ pr.current \in DOMAIN dirs

(***************************************************************************)
(* apply run again on a branch that is already merged.                     *)
(***************************************************************************)
\* the head of branch b is reachable from the head of base
AlreadyMerged(b) ==
  /\ b \in DOMAIN branches
  /\ branches[b] \in Ancestors(parents, branches[BASE_BRANCH])

\* the branch checked out where apply was run
BranchAtCwd == HeadBranch(dirs, rootBranch, ap.cwd)

Resolving(p) ==
  st[p].pc \in {"explicitCheck", "findBranch", "findWorktreeDir",
                "findWorktreeBranch", "spawn"}

\* C32: nothing reserves a candidate between the existence checks and the
\* creation call.  The steps of name resolution and the step that issues the
\* call change nothing in the repository, and a check passes whenever the
\* directory or the branch it looks for does not exist, whatever the other
\* invocations have resolved; so two invocations for the same agent can both
\* have resolved the same worktree name and branch name with neither call
\* issued (the witness).
C32_NoLockOnCandidate ==
  /\ [][\A p \in Procs : (Resolving(p) /\ st'[p] # st[p]) => repo' = repo]_vars
  /\ [][\A p \in Procs :
          (/\ st[p].pc = "findWorktreeDir" /\ st'[p] # st[p]
           /\ ~DirExists(dirs, container, st[p].worktreeName))
          => /\ st'[p].pc = "findWorktreeBranch"
             /\ st'[p].worktreeName = st[p].worktreeName]_vars
  /\ [][\A p \in Procs :
          (/\ st[p].pc = "findWorktreeBranch" /\ st'[p] # st[p]
           /\ ~branchExists(branches, buildBranchName(st[p].worktreeName)))
          => /\ st'[p].pc = "spawn"
             /\ st'[p].worktreeName = st[p].worktreeName
             /\ st'[p].branchName = buildBranchName(st[p].worktreeName)]_vars
  /\ [][\A p \in Procs :
          (/\ st[p].pc = "findBranch" /\ st'[p] # st[p]
           /\ ~branchExists(branches, st[p].branchName))
          => /\ st'[p].pc = "spawn"
             /\ st'[p].branchName = st[p].branchName]_vars

\* C32 witness: two invocations for the same agent, neither given a name,
\* have both resolved the same worktree name and the same branch name, and
\* neither has issued its creation call
C32_Witness ==
  \E p, q \in Procs :
    /\ p # q
    /\ st[p].pc = "spawn" /\ st[q].pc = "spawn"
    /\ st[p].git = "none" /\ st[q].git = "none"
    /\ st[p].agent = st[q].agent
    /\ st[p].wtOpt = NoName /\ st[q].wtOpt = NoName
    /\ st[p].worktreeName = st[q].worktreeName
    /\ st[p].branchName = st[q].branchName
    /\ ~DirExists(dirs, container, st[p].worktreeName)
    /\ ~branchExists(branches, st[p].branchName)

(***************************************************************************)
(* SpecScriptRace: start through scripts/prl-start.sh, invocations side by *)
(* side on a fresh repository.  The script resolves its names and issues   *)
(* the creation call as createWorktree does; it differs in what happens    *)
(* when the call fails and when a signal arrives.                          *)
(***************************************************************************)
\* cleanup_on_signal: the trap of prl-start.sh.  bash runs it once the
\* command it waits for has returned; it removes the directory if there is
\* one at the path and the branch if there is one of the name, then exits 1
cleanup_on_signal(p, rmOk, brOk) ==
  /\ st[p].handlers
  /\ st[p].git \in {"ok", "failed"}
  /\ LET removes == /\ DirExists(dirs, container, st[p].worktreeName)
                    /\ rmOk
                    /\ WorktreeRemoveOk(dirs, st[p].worktreeName)
         left == IF removes THEN RemoveKey(dirs, st[p].worktreeName) ELSE dirs
     IN /\ dirs' = left
        /\ branches' = IF /\ branchExists(branches, st[p].branchName)
                          /\ brOk
                          /\ BranchDeleteOk(left, branches, rootBranch, st[p].branchName)
                       THEN RemoveKey(branches, st[p].branchName)
                       ELSE branches
  /\ st' = [st EXCEPT ![p] = [Fail(@, "InterruptedCreation") EXCEPT !.handlers = FALSE]]
  /\ UNCHANGED <<container, rootBranch, parents, events, others, env>>

\* set -e: a failed `git worktree add` ends the script with its status, the
\* trap not being run
worktree_add_failed(p) ==
  /\ st[p].pc = "creating"
  /\ st[p].git = "failed"
  /\ st' = [st EXCEPT ![p] = [Fail(@, "CreationFailure") EXCEPT !.handlers = FALSE]]
  /\ UNCHANGED <<repo, events, others, env>>

ScriptStartStep(p) ==
  \/ /\ st[p].runs < 1
     /\ \E a \in RaceAgentArgs, w \in RaceWorktreeArgs : startAgent(p, a, w, TRUE)
  \/ \E found \in BOOLEAN : validateAgentCommand(p, found)
  \/ ensurePrlDirectory(p)
  \/ explicitCheck(p)
  \/ findBranchStep(p)
  \/ findWorktreeDirStep(p)
  \/ findWorktreeBranchStep(p)
  \/ installHandlers(p)
  \/ \E envOk \in BOOLEAN : gitWorktreeAdd(p, envOk)
  \/ \E rmOk, brOk \in BOOLEAN : cleanup_on_signal(p, rmOk, brOk)
  \/ createReturn(p)
  \/ worktree_add_failed(p)
  \/ npmInstall(p)
  \/ \E agentOk \in BOOLEAN : runAgentCommand(p, agentOk)
  \/ openWorktreeShell(p)
  \/ \E answer \in Answers : askToPrune(p, answer)
  \/ \E ok \in BOOLEAN : startRemoveWorktree(p, ok)
  \/ \E ok \in BOOLEAN : startRemoveBranch(p, ok)

NextScriptRace == \E p \in Procs : ScriptStartStep(p)

SpecScriptRace == InitFresh /\ [][NextScriptRace]_vars

\* C33 (as claimed): the step in which an invocation's creation ends in a
\* failure or an interruption removes no directory and deletes no branch
\* except those its own creation call made.
C33_RollbackOnlyOwn ==
  [][\A p \in Procs :
       (st[p].pc = "creating" /\ st'[p].pc = "exited") =>
         /\ \A d \in DOMAIN dirs \ DOMAIN dirs' :
              d = st[p].worktreeName /\ st[p].git = "ok"
         /\ \A b \in DOMAIN branches \ DOMAIN branches' :
              b = st[p].branchName /\ st[p].git = "ok"]_vars

\* an interrupted script whose own creation call had failed, and the
\* worktree another invocation created under the same names is gone, both
\* directory and branch, though that invocation never asked for its removal
C33_ForeignWorktreeRemoved ==
  \E p, q \in Procs :
    /\ p # q
    /\ st[p].error = "InterruptedCreation"
    /\ st[p].git = "failed"
    /\ st[q].git = "ok"
    /\ ~st[q].shouldRemove
    /\ st[q].worktreeName = st[p].worktreeName
    /\ st[q].branchName = st[p].branchName
    /\ st[q].worktreeName \notin DOMAIN dirs
    /\ st[q].branchName \notin DOMAIN branches

(***************************************************************************)
(* apply run inside a worktree that start created.                         *)
(***************************************************************************)
\* apply was run in the worktree invocation 1 created, which is still there
\* on its branch
InCreatedWorktree ==
  /\ st[1].worktreeCreated
  /\ ap.cwd = st[1].worktreeName
  /\ ap.cwd \in DOMAIN dirs
  /\ dirs[ap.cwd] = st[1].branchName

\* validation ends in this step, the current branch having been read
Validated == ap.pc = "validateContext" /\ ap' # ap /\ ap'.currentBranch # <<>>

\* validation accepts, and the descriptor is of the directory apply runs in
AcceptedAsItself ==
  /\ ap'.pc = "checkRemote"
  /\ ap'.descriptor = [worktreeName |-> ap.cwd, branchName |-> dirs[ap.cwd]]

\* C34 (as claimed): an apply run inside a worktree that start created, by
\* the default path or with an explicit name, and that was not removed
\* since, passes validation, with the descriptor of that very worktree.
C34_CreatedAccepted ==
  [][(Validated /\ InCreatedWorktree) => AcceptedAsItself]_vars

\* apply run inside the worktree a start with an explicit name created has
\* failed: no directory is named like the branch
C34_ExplicitRejected ==
  /\ InCreatedWorktree
  /\ st[1].wtOpt # NoName
  /\ ap.pc = "failed"
  /\ ap.error = "OrphanedBranch"
  /\ ap.currentBranch = st[1].branchName

\* what holds: the worktree of a start without an explicit name is accepted
\* as itself
DefaultCreatedAccepted ==
  [][(Validated /\ InCreatedWorktree /\ st[1].wtOpt = NoName)
       => AcceptedAsItself]_vars

(***************************************************************************)
(* SpecCross: starts with explicit or default names, then either a prune   *)
(* or applies, one command at a time, on a repository without worktrees    *)
(* whose base branch has an upstream one commit ahead.                     *)
(***************************************************************************)
CrossWorktreeArgs == { NoName, <<"w","-","1">>, <<"w","-","2">> }

InitCross ==
  /\ container = FALSE
  /\ dirs = <<>>
  /\ branches = [b \in {BASE_BRANCH} |-> 1]
  /\ rootBranch = BASE_BRANCH
  /\ parents = AddCommit([c \in {1} |-> <<>>], <<1>>)
  /\ st = [p \in Procs |-> IdleStart]
  /\ remote = [upstream |-> TRUE, tracking |-> 1,
               head |-> NewCommit([c \in {1} |-> <<>>])]
  /\ pr = IdlePrune
  /\ ap = IdleApply
  /\ events = <<>>
  /\ env = NoInvocation

NextCross ==
  \/ /\ pr.pc = "idle" /\ ap.pc = "idle"
     /\ StartStepWith(1, SeqAgentArgs, CrossWorktreeArgs, {TRUE}, MaxStarts - 1, TRUE)
  \/ /\ ap.pc = "idle"
     /\ PruneStepWith(SeqAnswers)
  \/ /\ pr.pc = "idle"
     /\ ApplyStep

SpecCross == InitCross /\ [][NextCross]_vars

\* branch b is checked out in a managed worktree other than the one named d
BranchOfAnother(d, b) ==
  \E other \in DOMAIN dirs \ {d} : dirs[other] = b

\* C35 (as claimed): while prune or apply's cleanup is removing a worktree,
\* the branch it deletes or is about to try to delete is not the branch of
\* a managed worktree other than the one whose directory it removes.
C35_RemovalOfOneWorktree ==
  /\ pr.pc \in {"removeWorktree", "removeBranch"}
       => ~BranchOfAnother(pr.current, buildBranchName(pr.current))
  /\ ap.pc \in {"removeWorktree", "removeBranch"}
       => ~BranchOfAnother(ap.descriptor.worktreeName, ap.descriptor.branchName)

\* apply, run in one worktree, has removed the directory of another and
\* failed to delete the branch, which is that of the worktree it was run in
C35_ApplyRemovedAnother ==
  /\ ap.pc = "done"
  /\ ap.cwd \in DOMAIN dirs
  /\ dirs[ap.cwd] = ap.descriptor.branchName
  /\ ap.descriptor.worktreeName # ap.cwd
  /\ ap.descriptor.worktreeName \notin DOMAIN dirs
  /\ \E i \in 1..Len(ap.ops) : ap.ops[i] = [cmd |-> "worktree remove", ok |-> TRUE]
  /\ \E i \in 1..Len(ap.ops) : ap.ops[i] = [cmd |-> "branch -D", ok |-> FALSE]

(***************************************************************************)
(* SpecApply: a failure inside the remote check.                           *)
(***************************************************************************)
\* the remote check has just been left
RemoteCheckLeft == ap.pc = "checkRemote" /\ ap'.pc # "checkRemote"

\* one of the commands of the remote check failed: the upstream lookup, the
\* quiet fetch or the commit count
RemoteCheckFailed ==
  \/ ~remote.upstream
  \/ /\ Len(ap'.ops) > Len(ap.ops)
     /\ ~ap'.ops[Len(ap'.ops)].ok

SyncPcs ==
  {"confirmFetch", "syncFetch", "syncCheckout", "syncMerge",
   "syncCheckoutBack", "syncRestore"}

\* C36: a failure of the upstream lookup, of the quiet fetch or of the commit
\* count inside the remote check is taken as "base is not behind": apply goes
\* on to the merge stage with no advisory and without the update of base, and
\* does not fail. The advisory and the update of base are entered only after
\* a fetch and a count that both succeeded. apply fails only out of the
\* validation of the context and out of the merge stage.
C36_RemoteCheckFailureIgnored ==
  /\ [][RemoteCheckLeft /\ RemoteCheckFailed =>
          /\ ap'.pc = "mergeCheckout"
          /\ ~ap'.remoteAhead
          /\ ap'.error = ap.error
          /\ repo' = repo]_vars
  /\ [](ap.pc \in SyncPcs =>
          /\ \E i \in 1..Len(ap.ops) : ap.ops[i] = [cmd |-> "fetch", ok |-> TRUE]
          /\ \E i \in 1..Len(ap.ops) : ap.ops[i] = [cmd |-> "rev-list", ok |-> TRUE])
  /\ [][ap.pc # "failed" /\ ap'.pc = "failed" =>
          ap.pc \in {"validateContext", "mergeCheckout", "merge"}]_vars

\* the quiet fetch failed while the upstream is ahead of base, and apply is
\* at the merge stage with no advisory
C36_Witness ==
  /\ ap.pc = "mergeCheckout"
  /\ remote.upstream
  /\ Behind(parents, branches, remote.head)
  /\ ~ap.remoteAhead
  /\ ap.tty
  /\ ap.ops = <<[cmd |-> "fetch", ok |-> FALSE]>>

(***************************************************************************)
(* SpecCheckedOut: applies, one at a time, in a repository whose root      *)
(* working copy is on the base branch, on a feature branch or on the agent *)
(* branch, with one managed directory w and an upstream one commit ahead.  *)
(***************************************************************************)
\* the commits at the start: 1, the upstream's 2 on top of it, the agent's 3
\* on top of 1
CheckedOutParents ==
  AddCommit(AddCommit([c \in {1} |-> <<>>], <<1>>), <<1>>)

InitCheckedOut ==
  /\ \E h \in {buildBranchName(<<"w">>), DetachedHead} :
       /\ dirs = [d \in {<<"w">>} |-> h]
       /\ rootBranch \in {BASE_BRANCH, FeatureBranch}
                           \cup (IF h = DetachedHead
                                 THEN {buildBranchName(<<"w">>)} ELSE {})
  /\ container = TRUE
  /\ branches = [b \in {BASE_BRANCH, FeatureBranch, buildBranchName(<<"w">>)} |->
                   IF b = buildBranchName(<<"w">>) THEN 3 ELSE 1]
  /\ parents = CheckedOutParents
  /\ st = [p \in Procs |-> IdleStart]
  /\ remote = [upstream |-> TRUE, tracking |-> 1, head |-> 2]
  /\ pr = IdlePrune
  /\ ap = IdleApply
  /\ events = <<>>
  /\ env = NoInvocation

SpecCheckedOut == InitCheckedOut /\ [][ApplyStep]_vars

\* the stages of apply after the merge stage's checkout of base
AfterCheckoutPcs == {"merge", "confirmCleanup", "removeWorktree", "removeBranch"}

\* apply has ended after the merge stage's checkout of base succeeded: it is
\* Done, or Failed on the merge itself
EndedAfterCheckout ==
  \/ ap.pc = "done"
  \/ /\ ap.pc = "failed"
     /\ ap.ops # <<>>
     /\ ap.ops[Len(ap.ops)].cmd = "merge"

\* C37: apply does not put the root working copy back on the branch it had
\* checked out when apply was called.  From the successful checkout of base
\* in the merge stage on, the root working copy stays on the base branch, and
\* it is on the base branch when apply ends, in Done or in Failed.  When the
\* validation of the context fails, the branch checked out in the root
\* working copy is the one it was.
C37_RootLeftOnBase ==
  /\ [](ap.pc \in AfterCheckoutPcs \/ EndedAfterCheckout =>
          rootBranch = BASE_BRANCH)
  /\ [][ap.pc = "mergeCheckout" /\ ap'.pc = "merge" =>
          rootBranch' = BASE_BRANCH]_vars
  /\ [][ap.pc \in AfterCheckoutPcs => rootBranch' = rootBranch]_vars
  /\ [][ap.pc = "validateContext" /\ ap'.pc = "failed" =>
          rootBranch' = rootBranch]_vars

\* apply was run in the root working copy, then on the agent branch; its
\* merge failed, and the root working copy is on the base branch
C37_Witness ==
  /\ ap.pc = "failed"
  /\ ap.error = "MergeFailure"
  /\ ap.cwd = Root
  /\ ap.currentBranch = buildBranchName(<<"w">>)
  /\ ap.ops[Len(ap.ops)] = [cmd |-> "merge", ok |-> FALSE]
  /\ rootBranch = BASE_BRANCH

(***************************************************************************)
(* SpecCreateFair: the increment searches of one start against an          *)
(* arbitrary namespace; an evaluation of a loop condition that is due is   *)
(* made (each is a synchronous test or an awaited git command).            *)
(***************************************************************************)
SearchPcs == {"findWorktreeDir", "findWorktreeBranch", "findBranch"}

SearchStep ==
  \/ findBranchStep(1)
  \/ findWorktreeDirStep(1)
  \/ findWorktreeBranchStep(1)

SpecCreateFair == InitCreate /\ [][NextCreate]_vars /\ WF_vars(SearchStep)

\* the candidates the search of invocation 1 has rejected so far: both
\* loops count from 1 and add one per rejection
Rejected == st[1].counter - 1

\* the integer suffix of the name the search returned: of the worktree name
\* in default resolution, of the branch name in explicit resolution
ReturnedSuffix ==
  IF st[1].wtOpt = NoName
  THEN SuffixOf(st[1].baseName, st[1].worktreeName)
  ELSE SuffixOf(st[1].baseName,
                SubSeq(st[1].branchName, Len(PrlPrefix) + 1, Len(st[1].branchName)))

\* the search of invocation 1 is under way or has just returned
InSearch == st[1].pc \in SearchPcs \cup {"spawn"}

\* C38 (as claimed): the suffix returned by either search never exceeds the
\* number of candidates the search rejected
C38_SuffixWithinRejected ==
  st[1].pc = "spawn" => ReturnedSuffix <= Rejected

\* C38: against a namespace of finitely many directories and branches both
\* increment searches end.  Every evaluation of a loop condition either
\* leaves the search or rejects one more candidate; default resolution
\* rejects at most as many candidates as there are directories plus
\* branches, explicit resolution at most as many as there are branches.  The
\* suffix returned by default resolution is the number of rejected
\* candidates (none for the base itself), and the suffix returned by
\* explicit resolution, which counts from 1, is that number plus one.
C38_SearchesTerminate ==
  /\ (st[1].pc \in SearchPcs) ~> (st[1].pc \notin SearchPcs)
  /\ [][st[1].pc \in SearchPcs =>
          \/ st'[1].pc = "spawn" /\ st'[1].counter = st[1].counter
          \/ st'[1].pc \in SearchPcs /\ st'[1].counter = st[1].counter + 1
          \/ st'[1].pc = "findWorktreeBranch" /\ st[1].pc = "findWorktreeDir"
               /\ st'[1].counter = st[1].counter]_vars
  /\ [](InSearch /\ st[1].wtOpt = NoName =>
          Rejected <= Cardinality(DOMAIN dirs) + Cardinality(DOMAIN branches))
  /\ [](InSearch /\ st[1].wtOpt # NoName =>
          Rejected <= Cardinality(DOMAIN branches))
  /\ [](st[1].pc = "spawn" =>
          ReturnedSuffix = IF st[1].wtOpt = NoName THEN Rejected ELSE Rejected + 1)

\* explicit resolution has returned prl/w-3 having rejected prl/w-1 and
\* prl/w-2
C38_Witness ==
  /\ st[1].pc = "spawn"
  /\ st[1].wtOpt # NoName
  /\ st[1].branchName = PrlPrefix \o <<"w","-","3">>
  /\ Rejected = 2

(***************************************************************************)
(* SpecNames: start sessions for every raw agent name over a small         *)
(* alphabet, on a fresh repository.                                        *)
(***************************************************************************)
\* a lower-case and an upper-case letter, a digit, hyphen, space, punctuation
Alphabet == {"a", "Z", "7", "-", " ", "_"}

RECURSIVE StringsUpTo(_)
StringsUpTo(n) ==
  IF n = 0 THEN {<<>>}
  ELSE StringsUpTo(n - 1)
       \cup { Append(s, c) : s \in { t \in StringsUpTo(n - 1) : Len(t) = n - 1 },
                             c \in Alphabet }

RawNames == StringsUpTo(MaxLen)

NextNames == StartStepWith(1, RawNames, SeqWorktreeArgs, {TRUE}, 1, FALSE)

SpecNames == InitFresh /\ [][NextNames]_vars

\* ^[a-z0-9]+(-[a-z0-9]+)*$
MatchesSegment(s) ==
  /\ s # <<>>
  /\ \A i \in 1..Len(s) : s[i] = "-" \/ IsAlnum(s[i])
  /\ s[1] # "-"
  /\ s[Len(s)] # "-"
  /\ \A i \in 1..(Len(s) - 1) : ~(s[i] = "-" /\ s[i + 1] = "-")

\* the maximal runs of letters and digits of s, lower-cased, in order
RECURSIVE AlnumRuns(_)
AlnumRuns(s) ==
  IF s = <<>> THEN <<>>
  ELSE IF ~IsAlnum(toLowerCase(Head(s))) THEN AlnumRuns(Tail(s))
  ELSE IF Len(s) > 1 /\ IsAlnum(toLowerCase(s[2]))
       THEN <<<<toLowerCase(Head(s))>> \o Head(AlnumRuns(Tail(s)))>>
            \o Tail(AlnumRuns(Tail(s)))
       ELSE <<<<toLowerCase(Head(s))>>>> \o AlnumRuns(Tail(s))

IsEchoOption(arg) ==
  /\ Len(arg) >= 2
  /\ arg[1] = "-"
  /\ \A i \in 2..Len(arg) : arg[i] \in {"n", "e", "E"}

echo(arg) == IF IsEchoOption(arg) THEN <<>> ELSE arg

\* sed 's/[^a-z0-9]/-/g': every other character becomes a hyphen
ReplaceEach(s) == [i \in 1..Len(s) |-> IF IsAlnum(s[i]) THEN s[i] ELSE "-"]

\* prl-common.sh sanitize_segment: echo | tr upper lower | sed replace |
\* sed strip leading | sed strip trailing | sed collapse
sanitize_segment(segment) ==
  CollapseHyphens(StripRight(StripLeft(ReplaceEach(LowerAll(echo(segment))))))

\* prl-common.sh find_available_branch_name
find_available_branch_name(bs, agent) ==
  BranchNameLoop(bs, IF sanitize_segment(agent) = <<>> THEN AgentFallback
                     ELSE sanitize_segment(agent), 1)

\* prl-common.sh find_available_worktree_name
find_available_worktree_name(ds, cont, bs, base_name) ==
  WorktreeNameLoop(ds, cont, bs, base_name, base_name, 1)

\* the outcome of a resolution: a pair of names, or the collision error
Resolved(worktreeName, branchName) ==
  [ok |-> TRUE, worktreeName |-> worktreeName, branchName |-> branchName]
Collision == [ok |-> FALSE, worktreeName |-> <<>>, branchName |-> <<>>]

\* createWorktree lines 114-147, the container ensured
createWorktreeNames(ds, bs, agent, wt) ==
  IF wt # NoName
  THEN IF DirExists(ds, TRUE, sanitizeSegment(wt)) THEN Collision
       ELSE Resolved(sanitizeSegment(wt), findAvailableBranchName(bs, agent))
  ELSE LET worktreeName ==
             findAvailableWorktreeName(ds, TRUE, bs, buildWorktreeName(agent))
       IN Resolved(worktreeName, buildBranchName(worktreeName))

\* prl-start.sh Step 4 and Step 5
prl_start_names(ds, bs, agent, wt) ==
  IF wt # NoName
  THEN IF DirExists(ds, TRUE, sanitize_segment(wt)) THEN Collision
       ELSE Resolved(sanitize_segment(wt), find_available_branch_name(bs, agent))
  ELSE LET BASE_NAME == IF sanitize_segment(agent) = <<>> THEN AgentFallback
                        ELSE sanitize_segment(agent)
           WORKTREE_NAME == find_available_worktree_name(ds, TRUE, bs, BASE_NAME)
       IN Resolved(WORKTREE_NAME, buildBranchName(WORKTREE_NAME))

\* the record of an invocation that resolved its names or failed doing so
Outcome(agent, wt, res) ==
  IF res.ok
  THEN [IdleStart EXCEPT !.pc = "spawn", !.agent = agent, !.wtOpt = wt,
                         !.worktreeName = res.worktreeName,
                         !.branchName = res.branchName, !.runs = 1]
  ELSE Fail([IdleStart EXCEPT !.agent = agent, !.wtOpt = wt, !.runs = 1],
            "ValidationError")

\* a hyphen, a letter echo takes as an option, an upper-case letter, a blank
ArgChars == {"-", "n", "W", " "}

RECURSIVE ArgsUpTo(_)
ArgsUpTo(n) ==
  IF n = 0 THEN {<<>>}
  ELSE ArgsUpTo(n - 1)
       \cup { Append(s, c) : s \in { t \in ArgsUpTo(n - 1) : Len(t) = n - 1 },
                             c \in ArgChars }

\* the command-line arguments: an agent name, and an explicit worktree name
\* or none
ResolveArgs == ArgsUpTo(MaxLen - 1) \ {<<>>}

\* names that may be taken when the resolution begins
ResolveSeeds == { <<"w">>, <<"w","-","1">>, <<"n">> }

InitResolve ==
  /\ \E D \in SUBSET ResolveSeeds, B \in SUBSET ResolveSeeds :
       /\ dirs = [d \in D |-> IF d \in B THEN buildBranchName(d) ELSE NoBranch]
       /\ branches = [b \in {buildBranchName(n) : n \in B} \cup {BASE_BRANCH} |-> 1]
       /\ container \in (IF D = {} THEN BOOLEAN ELSE {TRUE})
  /\ rootBranch = BASE_BRANCH
  /\ parents = [c \in {1} |-> <<>>]
  /\ st = [p \in Procs |-> IdleStart]
  /\ remote = NoRemote
  /\ pr = IdlePrune
  /\ ap = IdleApply
  /\ events = <<>>
  /\ env = NoInvocation

\* the library resolves the names for a pair of arguments
createWorktreeCall(agent, wt) ==
  /\ \A p \in Procs : st[p].pc = "idle"
  /\ container' = TRUE
  /\ st' = [st EXCEPT ![1] =
              Outcome(agent, wt, createWorktreeNames(dirs, branches, agent, wt))]
  /\ UNCHANGED <<dirs, branches, rootBranch, parents, events, others, env>>

\* the script resolves the names for the same pair of arguments
prl_start_call ==
  /\ st[1].pc # "idle"
  /\ st[2].pc = "idle"
  /\ container' = TRUE
  /\ st' = [st EXCEPT ![2] =
              Outcome(st[1].agent, st[1].wtOpt,
                      prl_start_names(dirs, branches, st[1].agent, st[1].wtOpt))]
  /\ UNCHANGED <<dirs, branches, rootBranch, parents, events, others, env>>

NextResolve ==
  \/ \E agent \in ResolveArgs, wt \in {NoName} \cup ResolveArgs :
       createWorktreeCall(agent, wt)
  \/ prl_start_call

SpecResolve == InitResolve /\ [][NextResolve]_vars

\* both implementations have resolved the same arguments
BothResolved == st[1].pc # "idle" /\ st[2].pc # "idle"

\* C39 (as claimed): the script and the library return the same pair of
\* worktree name and branch name, or both fail with the explicit-name
\* collision error, for every agent name, explicit name and namespace.
C39_SameResolution ==
  BothResolved =>
    /\ st[1].error = st[2].error
    /\ st[1].worktreeName = st[2].worktreeName
    /\ st[1].branchName = st[2].branchName

\* the explicit name -n: the library resolved the directory n, the script
\* failed with the collision error
C39_OptionLikeNameDiverges ==
  /\ BothResolved
  /\ st[1].wtOpt = <<"-","n">>
  /\ st[1].pc = "spawn"
  /\ st[1].worktreeName = <<"n">>
  /\ <<"n">> \notin DOMAIN dirs
  /\ st[2].error = "ValidationError"

\* on arguments echo does not take for options the two implementations agree
AgreeUnlessEchoOption ==
  (BothResolved /\ ~IsEchoOption(st[1].agent) /\ ~IsEchoOption(st[1].wtOpt)) =>
    /\ st[1].error = st[2].error
    /\ st[1].worktreeName = st[2].worktreeName
    /\ st[1].branchName = st[2].branchName

(***************************************************************************)
(* The validation and the remote check of apply as prl-apply.sh makes      *)
(* them, set against the steps of applyAgent.                              *)
(***************************************************************************)
\* prl-common.sh get_worktree_by_branch: the directory named like the branch
\* without its prefix, under an existing container
get_worktree_by_branch(ds, cont, branch_name) ==
  LET worktree_name == SubSeq(branch_name, Len(PrlPrefix) + 1, Len(branch_name))
  IN IF cont /\ DirExists(ds, cont, worktree_name)
     THEN {worktree_name} ELSE {}

\* prl-apply.sh Step 2 and Step 3: the kind of error the script exits on,
\* "none" when the context is accepted
prl_apply_validate(ds, cont, rb, cwd, revParseOk) ==
  LET CURRENT_BRANCH == IF revParseOk THEN HeadBranch(ds, rb, cwd) ELSE <<>>
  IN IF CURRENT_BRANCH = <<>> \/ CURRENT_BRANCH = DetachedHead THEN "ContextError"
     ELSE IF CURRENT_BRANCH = BASE_BRANCH THEN "ContextError"
     ELSE IF ~StartsWithPrefix(CURRENT_BRANCH) THEN "ContextError"
     ELSE IF get_worktree_by_branch(ds, cont, CURRENT_BRANCH) = {}
       THEN IF ~DirExists(ds, cont,
                          SubSeq(CURRENT_BRANCH, Len(PrlPrefix) + 1,
                                 Len(CURRENT_BRANCH)))
            THEN "OrphanedBranch" ELSE "LookupFailure"
     ELSE "none"

\* prl-apply.sh Step 6: REMOTE_AHEAD.  A failed fetch is passed over and the
\* count is taken against the remote-tracking branch as it is
REMOTE_AHEAD(rem, ps, bs, fetchOk, countOk) ==
  IF ~rem.upstream THEN FALSE
  ELSE countOk /\ Behind(ps, bs, IF fetchOk THEN rem.head ELSE rem.tracking)

\* the validation of applyAgent and of prl-apply.sh end alike
ValidationAgrees ==
  [][\A ok \in BOOLEAN :
       applyValidateContext(ok) =>
         LET kind == prl_apply_validate(dirs, container, rootBranch, ap.cwd, ok)
         IN /\ (ap'.pc = "failed") <=> (kind # "none")
            /\ ap'.pc = "failed" => ap'.error = kind
            /\ ap'.pc # "failed" =>
                 get_worktree_by_branch(dirs, container, ap'.currentBranch)
                   = {ap'.descriptor.worktreeName}]_vars

\* C40 (as claimed): the script and the library reject the same contexts
\* with the same kind of error, and report the same verdict on base being
\* behind its upstream for every upstream configuration, fetch result and
\* count result, a failed quiet fetch included.
C40_SameOutcomes ==
  /\ ValidationAgrees
  /\ [][\A fetchOk, countOk \in BOOLEAN :
          checkRemoteAhead(fetchOk, countOk) =>
            ap'.remoteAhead =
              REMOTE_AHEAD(remote, parents, branches, fetchOk, countOk)]_vars

\* the quiet fetch failed while the remote-tracking branch, fetched by an
\* earlier run, is ahead of base: the library took base as not behind and
\* the script reports it behind
C40_StaleTrackingDiverges ==
  /\ ap.pc = "mergeCheckout"
  /\ ap.ops = <<[cmd |-> "fetch", ok |-> FALSE]>>
  /\ ~ap.remoteAhead
  /\ remote.upstream
  /\ REMOTE_AHEAD(remote, parents, branches, FALSE, TRUE)

\* when the quiet fetch succeeds, or there is no upstream, the verdicts agree
VerdictAgreesAfterFetch ==
  [][\A countOk \in BOOLEAN :
       checkRemoteAhead(TRUE, countOk) =>
         ap'.remoteAhead = REMOTE_AHEAD(remote, parents, branches, TRUE, countOk)]_vars

====
